---- MODULE Spec2Model ----
(***************************************************************************)
(* A model of the pregel graph store (package pregel, Store over a DB      *)
(* client) and of its range-key codec (package rangefield).                *)
(*                                                                         *)
(* Strings are sequences of one-character strings, so that the range key   *)
(* of a record is really encoded and decoded.  A physical record (an item  *)
(* of the table) is [id, rng, attrs]: the partition key, the encoded range *)
(* key and the remaining attributes, which are empty for a marker record   *)
(* and hold the type tag t and the marshalled value v for a data record.   *)
(***************************************************************************)
EXTENDS Naturals, Sequences, FiniteSets, TLC

(***************************************************************************)
(* Bounds of the model.                                                    *)
(***************************************************************************)
\* Number of Store operations (and, when interleaved, KVClient steps) in a run.
MaxOps == 3

(***************************************************************************)
(* Strings.                                                                *)
(***************************************************************************)
EmptyStr == << >>
sNode    == <<"n", "o", "d", "e">>
sData    == <<"d", "a", "t", "a">>
sChild   == <<"c", "h", "i", "l", "d">>
sParent  == <<"p", "a", "r", "e", "n", "t">>

RECURSIVE Concat(_)
\* The concatenation of a sequence of sequences (append(a, b...) repeated).
Concat(ss) ==
    IF ss = << >> THEN << >> ELSE Head(ss) \o Concat(Tail(ss))

RECURSIVE SetToSeq(_)
\* Some enumeration of a finite set: the order of a Go map iteration.
SetToSeq(S) ==
    IF S = {} THEN << >>
    ELSE LET x == CHOOSE y \in S : TRUE IN <<x>> \o SetToSeq(S \ {x})

SeqToSet(s) == {s[i] : i \in 1..Len(s)}

HexDigits ==
    {"0", "1", "2", "3", "4", "5", "6", "7", "8", "9",
     "A", "B", "C", "D", "E", "F", "a", "b", "c", "d", "e", "f"}

\* The two bytes of a non-ASCII character in UTF-8 (U+00E9), each one character of
\* a string here.
NonASCII == {"\\xC3", "\\xA9"}

\* shouldEscape with the separator left as it is.
shouldEscapeNoSlash(c) == c \in {";", ",", "?", "%", " ", "\\xC3", "\\xA9"}

\* net/url shouldEscape in path-segment mode: '/', ';', ',' and '?' are escaped, as
\* is every byte that is neither unreserved nor one of $&+=:@ ; '%' is such a byte.
shouldEscape(c) == c \in {"/", ";", ",", "?", "%", " ", "\\xC3", "\\xA9"}

\* The two upper-case hex digits of the byte c.
hexOf(c) ==
    CASE c = "/" -> <<"2", "F">>
      [] c = "%" -> <<"2", "5">>
      [] c = ";" -> <<"3", "B">>
      [] c = "," -> <<"2", "C">>
      [] c = "?" -> <<"3", "F">>
      [] c = " " -> <<"2", "0">>
      [] c = "\\xC3" -> <<"C", "3">>
      [] c = "\\xA9" -> <<"A", "9">>
      [] OTHER   -> <<"0", "0">>

\* The byte two hex digits stand for (upper or lower case).
unhex(h1, h2) ==
    LET up(h) == CASE h = "a" -> "A" [] h = "b" -> "B" [] h = "c" -> "C"
                   [] h = "d" -> "D" [] h = "e" -> "E" [] h = "f" -> "F"
                   [] OTHER -> h
        p == <<up(h1), up(h2)>>
    IN  CASE p = <<"2", "F">> -> "/"
          [] p = <<"2", "5">> -> "%"
          [] p = <<"3", "B">> -> ";"
          [] p = <<"2", "C">> -> ","
          [] p = <<"3", "F">> -> "?"
          [] p = <<"2", "0">> -> " "
          [] p = <<"6", "1">> -> "a"
          [] p = <<"6", "2">> -> "b"
          [] p = <<"5", "4">> -> "T"
          [] p = <<"C", "3">> -> "\\xC3"
          [] p = <<"A", "9">> -> "\\xA9"
          [] OTHER            -> "\\x" \* a byte outside the modelled alphabet

\* url.PathEscape
PathEscape(s) ==
    Concat([i \in 1..Len(s) |->
              IF shouldEscape(s[i]) THEN <<"%">> \o hexOf(s[i]) ELSE <<s[i]>>])

RECURSIVE unescapeFrom(_, _)
\* url.PathUnescape from position i on; ok is false on a malformed escape.
unescapeFrom(s, i) ==
    IF i > Len(s) THEN [s |-> << >>, ok |-> TRUE]
    ELSE IF s[i] = "%"
    THEN IF i + 2 > Len(s) \/ s[i + 1] \notin HexDigits \/ s[i + 2] \notin HexDigits
         THEN [s |-> << >>, ok |-> FALSE]
         ELSE LET r == unescapeFrom(s, i + 3)
              IN  [s |-> <<unhex(s[i + 1], s[i + 2])>> \o r.s, ok |-> r.ok]
    ELSE LET r == unescapeFrom(s, i + 1)
         IN  [s |-> <<s[i]>> \o r.s, ok |-> r.ok]

\* url.PathUnescape: the empty string together with an error on a bad escape.
PathUnescape(s) ==
    LET r == unescapeFrom(s, 1)
    IN  IF r.ok THEN r ELSE [s |-> EmptyStr, ok |-> FALSE]

RECURSIVE splitFrom(_, _, _)
\* The segments of v from position i on, seg being the segment begun before i.
splitFrom(v, i, seg) ==
    IF i > Len(v) THEN <<seg>>
    ELSE IF v[i] = "/" THEN <<seg>> \o splitFrom(v, i + 1, << >>)
    ELSE splitFrom(v, i + 1, Append(seg, v[i]))

\* strings.Split(v, "/"): one more segment than v has slashes.
Split(v) == splitFrom(v, 1, << >>)

(***************************************************************************)
(* package rangefield                                                      *)
(***************************************************************************)
\* The six RangeField kinds, and nil.
RFNode               == [kind |-> "Node", ID |-> EmptyStr, DataType |-> EmptyStr]
RFNodeData(dt)       == [kind |-> "NodeData", ID |-> EmptyStr, DataType |-> dt]
RFChild(c)           == [kind |-> "Child", ID |-> c, DataType |-> EmptyStr]
RFChildData(c, dt)   == [kind |-> "ChildData", ID |-> c, DataType |-> dt]
RFParent(p)          == [kind |-> "Parent", ID |-> p, DataType |-> EmptyStr]
RFParentData(p, dt)  == [kind |-> "ParentData", ID |-> p, DataType |-> dt]
RFNil                == [kind |-> "nil", ID |-> EmptyStr, DataType |-> EmptyStr]

\* decodeField: split on '/', unescape each segment, dropping the unescape error.
decodeField(v) ==
    LET segs == Split(v) IN [i \in 1..Len(segs) |-> PathUnescape(segs[i]).s]

\* encodeField: the escaped values joined by '/'.
encodeField(values) ==
    Concat([i \in 1..Len(values) |->
              (IF i > 1 THEN <<"/">> ELSE << >>) \o PathEscape(values[i])])

\* The values each kind of RangeField hands to encodeField.
encodeValues(f) ==
    CASE f.kind = "Node"       -> <<sNode>>
      [] f.kind = "NodeData"   -> <<sNode, sData, f.DataType>>
      [] f.kind = "Child"      -> <<sChild, f.ID>>
      [] f.kind = "ChildData"  -> <<sChild, f.ID, sData, f.DataType>>
      [] f.kind = "Parent"     -> <<sParent, f.ID>>
      [] f.kind = "ParentData" -> <<sParent, f.ID, sData, f.DataType>>

\* RangeField.Encode
\* The range fields of the IDs and the data types that the Store is given
\* here, with what Encode returns for each: computed once.
StoreFields ==
    LET ids == {<< >>, <<"a">>, <<"b">>, <<"/">>}
        dts == {<<"T">>, <<"U">>}
    IN  {RFNode} \cup {RFNodeData(t) : t \in dts}
        \cup {RFChild(c) : c \in ids} \cup {RFParent(c) : c \in ids}
        \cup {RFChildData(c, t) : c \in ids, t \in dts}
        \cup {RFParentData(c, t) : c \in ids, t \in dts}

EncodeOf == [f \in StoreFields |-> encodeField(encodeValues(f))]

Encode(f) ==
    IF f \in StoreFields THEN EncodeOf[f] ELSE encodeField(encodeValues(f))

decodeNodeField(parts) ==
    IF Len(parts) = 0 THEN [f |-> RFNil, ok |-> FALSE]
    ELSE IF parts[1] # sNode THEN [f |-> RFNil, ok |-> FALSE]
    ELSE IF Len(parts) = 1 THEN [f |-> RFNode, ok |-> TRUE]
    ELSE IF Len(parts) = 3 /\ parts[2] = sData
         THEN [f |-> RFNodeData(parts[3]), ok |-> TRUE]
    ELSE [f |-> RFNil, ok |-> FALSE]

decodeChildField(parts) ==
    IF Len(parts) = 0 THEN [f |-> RFNil, ok |-> FALSE]
    ELSE IF parts[1] # sChild THEN [f |-> RFNil, ok |-> FALSE]
    ELSE IF Len(parts) = 2 THEN [f |-> RFChild(parts[2]), ok |-> TRUE]
    ELSE IF Len(parts) = 4 /\ parts[3] = sData
         THEN [f |-> RFChildData(parts[2], parts[4]), ok |-> TRUE]
    ELSE [f |-> RFNil, ok |-> FALSE]

decodeParentField(parts) ==
    IF Len(parts) = 0 THEN [f |-> RFNil, ok |-> FALSE]
    ELSE IF parts[1] # sParent THEN [f |-> RFNil, ok |-> FALSE]
    ELSE IF Len(parts) = 2 THEN [f |-> RFParent(parts[2]), ok |-> TRUE]
    ELSE IF Len(parts) = 4 /\ parts[3] = sData
         THEN [f |-> RFParentData(parts[2], parts[4]), ok |-> TRUE]
    ELSE [f |-> RFNil, ok |-> FALSE]

\* The switch of Decode on the first of the decoded parts.
decodeParts(parts) ==
    IF Len(parts) = 0 THEN [f |-> RFNil, ok |-> FALSE]
    ELSE CASE parts[1] = sNode   -> decodeNodeField(parts)
           [] parts[1] = sChild  -> decodeChildField(parts)
           [] parts[1] = sParent -> decodeParentField(parts)
           [] OTHER              -> [f |-> RFNil, ok |-> FALSE]

\* rangefield.Decode
\* The range keys of these fields, with what Decode returns for each:
\* computed once.
StoreKeys == {EncodeOf[f] : f \in StoreFields}

DecodeOf == [s \in StoreKeys |-> decodeParts(decodeField(s))]

Decode(s) ==
    IF s \in StoreKeys THEN DecodeOf[s] ELSE decodeParts(decodeField(s))

(***************************************************************************)
(* Nodes, edges and data (package pregel).                                 *)
(***************************************************************************)
\* An empty Data map (nil and make(Data) range over nothing alike).
EmptyData == << >>

\* NewEdge(id), with its data set afterwards as PutEdgeData does.
NewEdge(id, data) == [ID |-> id, Data |-> data]

\* NewNode(id); Node{} is NewNode of the empty string.
NewNode(id) ==
    [ID |-> id, Data |-> EmptyData, Children |-> << >>, Parents |-> << >>]

\* The position of the edge with this ID in a list of edges; 0 for nil.
indexOfEdge(edges, id) ==
    IF \E i \in 1..Len(edges) : edges[i].ID = id
    THEN CHOOSE i \in 1..Len(edges) :
             edges[i].ID = id /\ \A j \in 1..(i - 1) : edges[j].ID # id
    ELSE 0

\* Node.GetChild / Node.GetParent
GetChild(n, id)  == indexOfEdge(n.Children, id)
GetParent(n, id) == indexOfEdge(n.Parents, id)

(***************************************************************************)
(* Errors.                                                                 *)
(***************************************************************************)
\* An error value is [msg, cause]: the message and the message of the wrapped error.
Nil              == [msg |-> "nil", cause |-> ""]
ErrMissingNodeID == [msg |-> "invalid node ID, IDs cannot be empty", cause |-> ""]
\* The error a failing KVClient call reports.
errDatabase      == [msg |-> "database failure", cause |-> ""]
\* fmt.Errorf("Store.Get: failed to query pages: %v", err)
errGetQuery(e)   == [msg |-> "Store.Get: failed to query pages", cause |-> e.msg]
\* fmt.Errorf("Store.Get: failed to unmarshal data: %v", err)
errGetUnmarshal(e) == [msg |-> "Store.Get: failed to unmarshal data", cause |-> e.msg]
errRecordTypeFieldUnknown   == [msg |-> "record type is unknown", cause |-> ""]
errRecordTypeFieldUnhandled == [msg |-> "record type is not handled", cause |-> ""]

(***************************************************************************)
(* Records (record.go).                                                    *)
(***************************************************************************)
\* newRecord: a marker record, the two key attributes only.
newRecord(id, rangeKey) ==
    [id |-> id, rng |-> Encode(rangeKey), attrs |-> {}]

\* newDataRecord: the marshalled value, the key attributes and the type tag.
newDataRecord(id, rangeKey, key, value) ==
    [id |-> id, rng |-> Encode(rangeKey), attrs |-> {[t |-> key, v |-> value]}]

newNodeRecord(id) == newRecord(id, RFNode)

newChildRecord(parent, child, data) ==
    <<newRecord(parent, RFChild(child))>> \o
    LET ks == SetToSeq(DOMAIN data)
    IN  [i \in 1..Len(ks) |->
           newDataRecord(parent, RFChildData(child, ks[i]), ks[i], data[ks[i]])]

\* A newParentRecord that writes the marker and leaves the data records out.
newParentRecordNoData(parent, child, data) ==
    <<newRecord(child, RFParent(parent))>>

newParentRecord(parent, child, data) ==
    <<newRecord(child, RFParent(parent))>> \o
    LET ks == SetToSeq(DOMAIN data)
    IN  [i \in 1..Len(ks) |->
           newDataRecord(child, RFParentData(parent, ks[i]), ks[i], data[ks[i]])]

\* getID: the key of a record.
getID(id, rangeKey) == [id |-> id, rng |-> Encode(rangeKey)]

(***************************************************************************)
(* Conversion of nodes to records (node.go).                               *)
(***************************************************************************)
\* A conversion that leaves the data of the node out.
convertNodeDataToRecordsNone(id, d) == << >>

convertNodeDataToRecords(id, d) ==
    LET ks == SetToSeq(DOMAIN d)
    IN  [i \in 1..Len(ks) |-> newDataRecord(id, RFNodeData(ks[i]), ks[i], d[ks[i]])]

\* convertEdgesToRecords(principal, edges, newChildRecord, newParentRecord)
convertChildEdgesToRecords(principal, edges) ==
    Concat([i \in 1..Len(edges) |->
              newChildRecord(principal, edges[i].ID, edges[i].Data) \o
              newParentRecord(principal, edges[i].ID, edges[i].Data)])

\* convertEdgesToRecords(principal, edges, newParentRecord, newChildRecord)
convertParentEdgesToRecords(principal, edges) ==
    Concat([i \in 1..Len(edges) |->
              newParentRecord(principal, edges[i].ID, edges[i].Data) \o
              newChildRecord(principal, edges[i].ID, edges[i].Data)])

\* The conversion as store.go has it: the parent edges are converted with the node
\* itself as principal, which turns the parent edges round.
convertNodeEdgesToRecordsOld(id, children, parents) ==
    convertChildEdgesToRecords(id, children) \o
    convertParentEdgesToRecords(id, parents)

convertNodeEdgesToRecords(id, children, parents) ==
    convertChildEdgesToRecords(id, children) \o
    Concat([i \in 1..Len(parents) |->
              convertParentEdgesToRecords(parents[i].ID,
                                          <<NewEdge(id, parents[i].Data)>>)])

convertToRecords(n) ==
    <<newNodeRecord(n.ID)>> \o
    convertNodeDataToRecords(n.ID, n.Data) \o
    convertNodeEdgesToRecords(n.ID, n.Children, n.Parents)

(***************************************************************************)
(* The KVClient (the DB interface of node.go, db/dynamo.go).  A Store      *)
(* value together with its client is s = [table, cap, calls]: the items of *)
(* the table, the Store's capacity counters and the KVClient calls made so *)
(* far by the operation in progress.  Each call either fails as a whole or *)
(* is applied as a whole.                                                  *)
(***************************************************************************)
zeroCapacity  == [c |-> 0, r |-> 0, w |-> 0]
\* What a successful write and a successful query report as consumed.
writeCapacity == [c |-> 1, r |-> 0, w |-> 1]
readCapacity  == [c |-> 1, r |-> 1, w |-> 0]

keyOf(item) == [id |-> item.id, rng |-> item.rng]

\* A table where the items put replace all the records of their partitions.
upsertPartition(tbl, items) ==
    {x \in tbl : \A i \in 1..Len(items) : items[i].id # x.id} \cup SeqToSet(items)

RECURSIVE upsert(_, _)
\* The table after the items are put one after the other, each replacing the item
\* that has its key.
upsert(tbl, items) ==
    IF items = << >> THEN tbl
    ELSE upsert({x \in tbl : keyOf(x) # keyOf(Head(items))} \cup {Head(items)},
                Tail(items))

BatchPut(s, items, fail) ==
    LET call == [call |-> "BatchPut", arg |-> SeqToSet(items), fail |-> fail]
    IN  IF fail
        THEN [s   |-> [s EXCEPT !.calls = Append(@, call)],
              cc  |-> zeroCapacity, err |-> errDatabase]
        ELSE [s   |-> [s EXCEPT !.calls = Append(@, call),
                                !.table = upsert(@, items)],
              cc  |-> writeCapacity, err |-> Nil]

\* A BatchDelete that has removed its first key when it fails.
BatchDeletePartial(s, keys, fail) ==
    LET call == [call |-> "BatchDelete", arg |-> SeqToSet(keys), fail |-> fail]
    IN  IF fail
        THEN [s   |-> [s EXCEPT !.calls = Append(@, call),
                                !.table = {x \in @ : keys = << >> \/ keyOf(x) # keys[1]}],
              cc  |-> zeroCapacity, err |-> errDatabase]
        ELSE [s   |-> [s EXCEPT !.calls = Append(@, call),
                                !.table = {x \in @ : keyOf(x) \notin SeqToSet(keys)}],
              cc  |-> writeCapacity, err |-> Nil]

BatchDelete(s, keys, fail) ==
    LET call == [call |-> "BatchDelete", arg |-> SeqToSet(keys), fail |-> fail]
    IN  IF fail
        THEN [s   |-> [s EXCEPT !.calls = Append(@, call)],
              cc  |-> zeroCapacity, err |-> errDatabase]
        ELSE [s   |-> [s EXCEPT !.calls = Append(@, call),
                                !.table = {x \in @ : keyOf(x) \notin SeqToSet(keys)}],
              cc  |-> writeCapacity, err |-> Nil]

QueryByID(s, idValue, fail) ==
    LET call == [call |-> "QueryByID", arg |-> {[id |-> idValue]}, fail |-> fail]
    IN  IF fail
        THEN [s     |-> [s EXCEPT !.calls = Append(@, call)],
              items |-> << >>, cc |-> zeroCapacity, err |-> errDatabase]
        ELSE [s     |-> [s EXCEPT !.calls = Append(@, call)],
              items |-> SetToSeq({x \in s.table : x.id = idValue}),
              cc    |-> readCapacity, err |-> Nil]

(***************************************************************************)
(* The Store (node.go).                                                    *)
(***************************************************************************)
updateCapacityStats(s, cc) ==
    [s EXCEPT !.cap = [c |-> @.c + cc.c, r |-> @.r + cc.r, w |-> @.w + cc.w]]

\* A return that adds the capacity of a write to the counters whether or not the
\* call has failed.
afterBatchCounted(r) ==
    [s |-> updateCapacityStats(r.s, writeCapacity), err |-> r.err]

\* What a Put or a delete returns after its KVClient call has returned r: the error
\* of the call, or nil with the consumed capacity added to the counters.
afterBatch(r) ==
    IF r.err # Nil
    THEN [s |-> r.s, err |-> r.err]
    ELSE [s |-> updateCapacityStats(r.s, r.cc), err |-> Nil]

\* A Put that converts and writes the nodes in front of the first one without ID
\* before it reports that one.
PutUpToInvalid(s, nodes, fail) ==
    LET bad == {i \in 1..Len(nodes) : nodes[i].ID = EmptyStr}
        k   == IF bad = {} THEN Len(nodes) + 1
               ELSE CHOOSE i \in bad : \A j \in bad : i <= j
        r   == afterBatch(BatchPut(s,
                   Concat([i \in 1..(k - 1) |-> convertToRecords(nodes[i])]), fail))
    IN  IF bad # {} THEN [s |-> r.s, err |-> ErrMissingNodeID] ELSE r

\* Store.Put
Put(s, nodes, fail) ==
    IF \E i \in 1..Len(nodes) : nodes[i].ID = EmptyStr
    THEN [s |-> s, err |-> ErrMissingNodeID]
    ELSE afterBatch(BatchPut(s,
             Concat([i \in 1..Len(nodes) |-> convertToRecords(nodes[i])]), fail))

\* PutNodeData as store.go has it: the data records only, without the node marker.
PutNodeDataOnly(s, id, data, fail) ==
    IF id = EmptyStr
    THEN [s |-> s, err |-> ErrMissingNodeID]
    ELSE afterBatch(BatchPut(s, convertNodeDataToRecords(id, data), fail))

\* Store.PutNodeData
PutNodeData(s, id, data, fail) ==
    IF id = EmptyStr
    THEN [s |-> s, err |-> ErrMissingNodeID]
    ELSE Put(s, <<[NewNode(id) EXCEPT !.Data = data]>>, fail)

\* A PutEdges that writes the marker of the parent together with the edges.
PutEdgesWithMarker(s, parent, edges, fail) ==
    IF parent = EmptyStr
    THEN [s |-> s, err |-> ErrMissingNodeID]
    ELSE afterBatch(BatchPut(s,
             <<newNodeRecord(parent)>> \o
                 convertNodeEdgesToRecords(parent, edges, << >>), fail))

\* Store.PutEdges
PutEdges(s, parent, edges, fail) ==
    IF parent = EmptyStr
    THEN [s |-> s, err |-> ErrMissingNodeID]
    ELSE afterBatch(BatchPut(s, convertNodeEdgesToRecords(parent, edges, << >>), fail))

\* Store.PutEdgeData
PutEdgeData(s, parent, child, data, fail) ==
    IF parent = EmptyStr \/ child = EmptyStr
    THEN [s |-> s, err |-> ErrMissingNodeID]
    ELSE PutEdges(s, parent, <<NewEdge(child, data)>>, fail)

\* An edge list that gets a new edge with every data record, found or not.
withEdgeDataAppended(edges, id, typeName, v) ==
    Append(edges, NewEdge(id, (typeName :> v)))

\* The edge list with data[typeName] = v set on the edge of this ID, which is
\* appended first when the list does not have it.
withEdgeData(edges, id, typeName, v) ==
    IF indexOfEdge(edges, id) = 0
    THEN Append(edges, NewEdge(id, (typeName :> v)))
    ELSE [edges EXCEPT ![indexOfEdge(edges, id)].Data = (typeName :> v) @@ @]

\* Store.DataTypes once the callers have registered their data type: its name.
DataTypes == {<<"T">>}

\* putData into the value of the factory of the type tag: the typed value for a
\* registered type, else a generic map of the attributes the record has besides
\* its keys and its type tag.
putData(a) == IF a.t \in DataTypes THEN a.v ELSE [v |-> a.v]

\* A Data map that keeps the entries of registered types only.
withDataRegistered(data, a) ==
    IF a.t \in DataTypes THEN (a.t :> a.v) @@ data ELSE data

\* n.Data[typeName] = v, for typeName and v of the attributes a.
withData(data, a) == (a.t :> putData(a)) @@ data

\* The switch of populateNodeFromRecord on what the range key decoded to, d.
populateDecoded(itm, n, d) ==
    LET a  == CHOOSE x \in itm.attrs : TRUE
    IN  IF ~d.ok THEN [n |-> n, err |-> errRecordTypeFieldUnknown]
        ELSE CASE d.f.kind = "Node" ->
                    [n |-> [n EXCEPT !.ID = itm.id], err |-> Nil]
               [] d.f.kind = "NodeData" ->
                    [n |-> [n EXCEPT !.Data = withData(@, a)], err |-> Nil]
               [] d.f.kind = "Child" ->
                    [n |-> IF GetChild(n, d.f.ID) = 0
                           THEN [n EXCEPT !.Children =
                                              Append(@, NewEdge(d.f.ID, EmptyData))]
                           ELSE n,
                     err |-> Nil]
               [] d.f.kind = "ChildData" ->
                    [n |-> [n EXCEPT !.Children =
                                       withEdgeData(@, d.f.ID, a.t, putData(a))],
                     err |-> Nil]
               [] d.f.kind = "Parent" ->
                    [n |-> IF GetParent(n, d.f.ID) = 0
                           THEN [n EXCEPT !.Parents =
                                              Append(@, NewEdge(d.f.ID, EmptyData))]
                           ELSE n,
                     err |-> Nil]
               [] d.f.kind = "ParentData" ->
                    [n |-> [n EXCEPT !.Parents =
                                       withEdgeData(@, d.f.ID, a.t, putData(a))],
                     err |-> Nil]
               [] OTHER -> [n |-> n, err |-> errRecordTypeFieldUnhandled]

\* Store.populateNodeFromRecord: the node after the record is folded into it.
populateNodeFromRecord(itm, n) == populateDecoded(itm, n, Decode(itm.rng))

RECURSIVE populateAll(_, _)
\* The loop of Store.Get over the items, which stops at the first error: r is the
\* node so far and the error of the item before.
populateAll(items, r) ==
    IF items = << >> \/ r.err # Nil THEN r
    ELSE populateAll(Tail(items), populateNodeFromRecord(Head(items), r.n))

\* The return of Store.Get after its loop over the items has returned r.
getPopulated(t, r) ==
    IF r.err # Nil
    THEN [s |-> t, n |-> r.n, ok |-> FALSE, err |-> errGetUnmarshal(r.err)]
    ELSE [s |-> t, n |-> r.n, ok |-> Len(r.n.ID) > 0, err |-> Nil]

\* Store.Get after its QueryByID call has returned q.
getQueried(q) ==
    IF q.err # Nil
    THEN [s |-> q.s, n |-> NewNode(EmptyStr), ok |-> FALSE, err |-> errGetQuery(q.err)]
    ELSE getPopulated(updateCapacityStats(q.s, q.cc),
                      populateAll(q.items, [n |-> NewNode(EmptyStr), err |-> Nil]))

\* A Get that queries the client whatever the id.
GetUnchecked(s, id, fail) == getQueried(QueryByID(s, id, fail))

\* Store.Get
Get(s, id, fail) ==
    IF id = EmptyStr
    THEN [s |-> s, n |-> NewNode(EmptyStr), ok |-> FALSE, err |-> Nil]
    ELSE getQueried(QueryByID(s, id, fail))

\* The keys of an edge of n in Children on n's own partition only.
childEdgeKeysForwardOnly(n, e) ==
    <<getID(n.ID, RFChild(e.ID))>> \o
    LET ks == SetToSeq(DOMAIN e.Data)
    IN  [i \in 1..Len(ks) |-> getID(n.ID, RFChildData(e.ID, ks[i]))]

\* The keys of an edge of n in Children and of its mirror, and the key of the marker
\* of the child.
childEdgeKeysAndChild(n, e) ==
    <<getID(n.ID, RFChild(e.ID)), getID(e.ID, RFParent(n.ID)), getID(e.ID, RFNode)>> \o
    LET ks == SetToSeq(DOMAIN e.Data)
    IN  Concat([i \in 1..Len(ks) |->
                  <<getID(n.ID, RFChildData(e.ID, ks[i])),
                    getID(e.ID, RFParentData(n.ID, ks[i]))>>])

\* The keys of an edge of n in Children and of its mirror: the two marker keys, then
\* the two data keys of every data entry of the edge.
childEdgeKeys(n, e) ==
    <<getID(n.ID, RFChild(e.ID)), getID(e.ID, RFParent(n.ID))>> \o
    LET ks == SetToSeq(DOMAIN e.Data)
    IN  Concat([i \in 1..Len(ks) |->
                  <<getID(n.ID, RFChildData(e.ID, ks[i])),
                    getID(e.ID, RFParentData(n.ID, ks[i]))>>])

\* The keys of an edge of n in Parents on n's own partition only.
parentEdgeKeysForwardOnly(n, e) ==
    <<getID(n.ID, RFParent(e.ID))>> \o
    LET ks == SetToSeq(DOMAIN e.Data)
    IN  [i \in 1..Len(ks) |-> getID(n.ID, RFParentData(e.ID, ks[i]))]

\* The same for an edge of n in Parents.
parentEdgeKeys(n, e) ==
    <<getID(n.ID, RFParent(e.ID)), getID(e.ID, RFChild(n.ID))>> \o
    LET ks == SetToSeq(DOMAIN e.Data)
    IN  Concat([i \in 1..Len(ks) |->
                  <<getID(n.ID, RFParentData(e.ID, ks[i])),
                    getID(e.ID, RFChildData(n.ID, ks[i]))>>])

\* The keys of the edges of a node, without the node marker and the node data.
deleteKeysEdgesOnly(n) ==
    Concat([i \in 1..Len(n.Children) |-> childEdgeKeys(n, n.Children[i])]) \o
    Concat([i \in 1..Len(n.Parents) |-> parentEdgeKeys(n, n.Parents[i])])

\* keysToDelete of Store.Delete, from the node its Get returned.
deleteKeys(n) ==
    <<getID(n.ID, RFNode)>> \o
    LET ks == SetToSeq(DOMAIN n.Data)
    IN  [i \in 1..Len(ks) |-> getID(n.ID, RFNodeData(ks[i]))] \o
    Concat([i \in 1..Len(n.Children) |-> childEdgeKeys(n, n.Children[i])]) \o
    Concat([i \in 1..Len(n.Parents) |-> parentEdgeKeys(n, n.Parents[i])])

\* The keys of all the child edges of a node, whatever the child asked for.
deleteEdgeKeysAll(n, child) ==
    Concat([i \in 1..Len(n.Children) |-> childEdgeKeys(n, n.Children[i])])

\* keysToDelete of Store.DeleteEdge, from the node its Get returned.
deleteEdgeKeys(n, child) ==
    Concat([i \in 1..Len(n.Children) |->
              IF n.Children[i].ID # child THEN << >>
              ELSE childEdgeKeys(n, n.Children[i])])

\* A BatchDelete call that is made a second time when it fails.
deleteBatchRetry(s, keys, fail) ==
    LET r == BatchDelete(s, keys, fail)
    IN  afterBatch(IF r.err # Nil THEN BatchDelete(r.s, keys, FALSE) ELSE r)

\* The second half of Store.Delete and Store.DeleteEdge: the BatchDelete call.
deleteBatch(s, keys, fail) == afterBatch(BatchDelete(s, keys, fail))

\* A Delete that goes on to its BatchDelete when the node is not found.
deleteGotAlways(g, failDelete) ==
    IF g.err # Nil THEN g
    ELSE deleteBatch(g.s, deleteKeys(g.n), failDelete) @@ g

\* Store.Delete after its Get has returned g; the result keeps what the Get found.
deleteGot(g, failDelete) ==
    IF g.err # Nil \/ ~g.ok THEN g
    ELSE deleteBatch(g.s, deleteKeys(g.n), failDelete) @@ g

\* Store.Delete
Delete(s, id, failQuery, failDelete) ==
    deleteGot(Get(s, id, failQuery), failDelete)

\* Store.DeleteEdge after its Get has returned g.
deleteEdgeGot(g, child, failDelete) ==
    IF g.err # Nil \/ ~g.ok THEN g
    ELSE deleteBatch(g.s, deleteEdgeKeys(g.n, child), failDelete) @@ g

\* Store.DeleteEdge
DeleteEdge(s, parent, child, failQuery, failDelete) ==
    deleteEdgeGot(Get(s, parent, failQuery), child, failDelete)

(***************************************************************************)
(* The inputs of the operations.  Every operation draws its arguments, and *)
(* whether its KVClient calls fail, from a small set that has the empty    *)
(* ID, a plain ID and an ID that has to be escaped, edges with and without *)
(* data, and two values of a data type.                                    *)
(***************************************************************************)
idA       == <<"a">>
idSlash   == <<"/">>
idB       == <<"b">>
NodeIDs   == {EmptyStr, idA, idSlash}
typeT     == <<"T">>
TypeNames == {typeT}
Values    == {1, 2}
DataMaps  == UNION {[D -> Values] : D \in SUBSET TypeNames}
dataT(v)  == (typeT :> v)

Node(id, data, children, parents) ==
    [ID |-> id, Data |-> data, Children |-> children, Parents |-> parents]

PutInputs ==
    {[nodes |-> ns, fail |-> FALSE] : ns \in {
        << >>,
        <<NewNode(idA)>>,
        <<NewNode(EmptyStr)>>,
        <<Node(idSlash, dataT(1), << >>, << >>)>>,
        <<Node(idA, EmptyData, <<NewEdge(idSlash, dataT(1))>>, << >>)>>,
        <<Node(idA, dataT(2), <<NewEdge(EmptyStr, EmptyData)>>, << >>)>>,
        <<Node(idSlash, EmptyData, << >>, <<NewEdge(idA, dataT(2))>>)>>,
        <<Node(idA, EmptyData, << >>, <<NewEdge(idSlash, EmptyData)>>)>>,
        <<Node(idA, EmptyData, <<NewEdge(idA, dataT(1))>>, <<NewEdge(idA, dataT(2))>>)>>,
        <<Node(idA, EmptyData, <<NewEdge(idA, dataT(1))>>, << >>)>>,
        <<Node(idA, EmptyData,
               <<NewEdge(idB, dataT(1)), NewEdge(idSlash, dataT(2))>>, << >>)>>,
        <<NewNode(idA), NewNode(EmptyStr)>>,
        <<Node(idA, dataT(1), << >>, << >>), Node(idSlash, dataT(2), << >>, << >>)>>,
        <<Node(idA, EmptyData, <<NewEdge(idSlash, dataT(1))>>, << >>),
          Node(idSlash, EmptyData, << >>, <<NewEdge(idA, dataT(2))>>)>>}}
    \cup {[nodes |-> <<Node(idA, dataT(1), <<NewEdge(idSlash, dataT(2))>>, << >>)>>,
           fail  |-> TRUE]}

PutNodeDataInputs ==
    {[id |-> idA, data |-> d, fail |-> FALSE] : d \in DataMaps}
    \cup {[id |-> EmptyStr, data |-> EmptyData, fail |-> FALSE],
          [id |-> idSlash, data |-> dataT(1), fail |-> FALSE],
          [id |-> idA, data |-> dataT(1), fail |-> TRUE]}

PutEdgesInputs ==
    {[parent |-> idA, edges |-> <<NewEdge(c, d)>>, fail |-> FALSE] :
        c \in NodeIDs, d \in DataMaps}
    \cup {[parent |-> idA, edges |-> << >>, fail |-> FALSE],
          [parent |-> idSlash, edges |-> <<NewEdge(idA, dataT(1))>>, fail |-> FALSE],
          [parent |-> EmptyStr, edges |-> <<NewEdge(idA, dataT(1))>>, fail |-> FALSE],
          [parent |-> idA,
           edges  |-> <<NewEdge(idSlash, dataT(1)), NewEdge(idA, EmptyData)>>,
           fail   |-> FALSE],
          [parent |-> idA, edges |-> <<NewEdge(idSlash, dataT(2))>>, fail |-> TRUE]}

PutEdgeDataInputs ==
    {[parent |-> idA, child |-> c, data |-> dataT(2), fail |-> FALSE] : c \in NodeIDs}
    \cup {[parent |-> EmptyStr, child |-> idSlash, data |-> EmptyData, fail |-> FALSE],
          [parent |-> idA, child |-> idSlash, data |-> EmptyData, fail |-> FALSE],
          [parent |-> idA, child |-> idSlash, data |-> dataT(1), fail |-> TRUE]}

GetInputs ==
    {[id |-> id, fail |-> FALSE] : id \in NodeIDs}
    \cup {[id |-> idA, fail |-> TRUE]}

DeleteInputs ==
    {[id |-> id, failQuery |-> FALSE, failDelete |-> FALSE] : id \in NodeIDs}
    \cup {[id |-> idA, failQuery |-> TRUE, failDelete |-> FALSE],
          [id |-> idA, failQuery |-> FALSE, failDelete |-> TRUE]}

DeleteEdgeInputs ==
    {[parent |-> idA, child |-> c, failQuery |-> FALSE, failDelete |-> FALSE] :
        c \in NodeIDs}
    \cup {[parent |-> idSlash, child |-> idA, failQuery |-> FALSE, failDelete |-> FALSE],
          [parent |-> EmptyStr, child |-> idA, failQuery |-> FALSE, failDelete |-> FALSE],
          [parent |-> idA, child |-> idSlash, failQuery |-> TRUE, failDelete |-> FALSE],
          [parent |-> idA, child |-> idSlash, failQuery |-> FALSE, failDelete |-> TRUE]}

(***************************************************************************)
(* package graph: the node loader of a request.                            *)
(***************************************************************************)
\* The callers of the loader in one request.
Callers == {1, 2}

\* The loader and the stats when ServeHTTP has made them: no batch, no caller
\* in a call, the counters at zero.
NewLoader ==
    [batches  |-> << >>,
     callers  |-> [c \in Callers |->
                     [phase |-> "idle", ids |-> << >>, i |-> 0, thunks |-> << >>,
                      nodes |-> << >>, errs |-> << >>]],
     stats    |-> [FetchesMade |-> 0, NodesLoaded |-> 0],
     loads    |-> 0,
     asked    |-> 0,
     ended    |-> FALSE,
     reported |-> [FetchesMade |-> 0, NodesLoaded |-> 0]]

(***************************************************************************)
(* The state.                                                              *)
(***************************************************************************)
VARIABLES
    table,  \* the items of the table behind the KVClient
    cap,    \* the capacity counters of the Store value
    last,   \* the operation that returned last: its input, result and KVClient calls
    pend,   \* the Delete or DeleteEdge of a second caller, between Get and BatchDelete
    raced,  \* whether a write has changed the table between such a Get and BatchDelete
    nops,   \* the number of operations started
    trail,  \* the operations since the last Put of one node, while they are that Put,
            \* then a Delete or DeleteEdge, then a Get; empty otherwise
    ld      \* the node loader of one request: its batches, its callers and the stats

vars == <<table, cap, last, pend, raced, nops, trail, ld>>

\* last before any operation has returned, and pend when no delete is in progress.
NoOp   == [op |-> "none", in |-> [id |-> EmptyStr], err |-> Nil, calls |-> << >>,
           pre |-> {}, precap |-> zeroCapacity, n |-> NewNode(EmptyStr), ok |-> FALSE]
NoPend == [op |-> "none", in |-> [id |-> EmptyStr], keys |-> << >>, calls |-> << >>,
           n |-> NewNode(EmptyStr)]

\* The Store value and its client before an operation starts.
Cur == [table |-> table, cap |-> cap, calls |-> << >>]

Init ==
    /\ table = {}
    /\ cap = zeroCapacity
    /\ last = NoOp
    /\ pend = NoPend
    /\ raced = FALSE
    /\ nops = 0
    /\ trail = << >>
    /\ ld = NewLoader

\* The trail after the operation op with input in has returned err.
Trailed(op, in, err) ==
    IF op = "Put" /\ Len(in.nodes) = 1 /\ err = Nil
    THEN <<[op |-> op, in |-> in, err |-> err, pre |-> table]>>
    ELSE IF \/ Len(trail) = 1 /\ op \in {"Delete", "DeleteEdge", "Get"}
            \/ /\ Len(trail) = 2
               /\ trail[2].op \in {"Delete", "DeleteEdge"}
               /\ op = "Get"
    THEN Append(trail, [op |-> op, in |-> in, err |-> err, pre |-> table])
    ELSE << >>

\* The operation op with input in returns r, having started in the current state.
Returned(op, in, r) ==
    /\ nops < MaxOps
    /\ nops' = nops + 1
    /\ table' = r.s.table
    /\ cap' = r.s.cap
    /\ last' = [op |-> op, in |-> in, err |-> r.err, calls |-> r.s.calls,
                pre |-> table, precap |-> cap, n |-> r.n, ok |-> r.ok]
    /\ raced' = (raced \/ (pend.op # "none" /\ r.s.table # table))
    /\ trail' = Trailed(op, in, r.err)
    /\ UNCHANGED <<pend, ld>>

\* A result of an operation that returns only an error.
OnlyErr(r) == [s |-> r.s, err |-> r.err, n |-> NewNode(EmptyStr), ok |-> FALSE]

DoPut ==
    \E i \in PutInputs :
        Returned("Put", i, OnlyErr(Put(Cur, i.nodes, i.fail)))

DoPutNodeData ==
    \E i \in PutNodeDataInputs :
        Returned("PutNodeData", i, OnlyErr(PutNodeData(Cur, i.id, i.data, i.fail)))

DoPutEdges ==
    \E i \in PutEdgesInputs :
        Returned("PutEdges", i, OnlyErr(PutEdges(Cur, i.parent, i.edges, i.fail)))

DoPutEdgeData ==
    \E i \in PutEdgeDataInputs :
        Returned("PutEdgeData", i,
                 OnlyErr(PutEdgeData(Cur, i.parent, i.child, i.data, i.fail)))

DoGet ==
    \E i \in GetInputs :
        Returned("Get", i, Get(Cur, i.id, i.fail))

DoDelete ==
    \E i \in DeleteInputs :
        /\ pend.op = "none"
        /\ Returned("Delete", i, Delete(Cur, i.id, i.failQuery, i.failDelete))

DoDeleteEdge ==
    \E i \in DeleteEdgeInputs :
        /\ pend.op = "none"
        /\ Returned("DeleteEdge", i,
                    DeleteEdge(Cur, i.parent, i.child, i.failQuery, i.failDelete))

\* One caller: every operation runs from its call to its return without another
\* operation in between.
Next ==
    \/ DoPut
    \/ DoPutNodeData
    \/ DoPutEdges
    \/ DoPutEdgeData
    \/ DoGet
    \/ DoDelete
    \/ DoDeleteEdge

Spec == Init /\ [][Next]_vars

(***************************************************************************)
(* Two callers.  The first runs the Put family as above: each of these     *)
(* operations makes one KVClient call.  The second, with a Store value of  *)
(* its own on the same table, runs Delete and DeleteEdge, whose Get and    *)
(* BatchDelete are two KVClient calls with the first caller's operations   *)
(* in between.                                                             *)
(***************************************************************************)
\* The second caller's Store value when its operation starts.
Cur2 == [table |-> table, cap |-> zeroCapacity, calls |-> << >>]

\* The Get of a delete returned g: the delete returns at once on an error or a node
\* that is not found, and otherwise goes on to its BatchDelete of its keysToDelete.
GotForDelete(op, in, g) ==
    /\ pend.op = "none"
    /\ nops < MaxOps
    /\ nops' = nops + 1
    /\ UNCHANGED <<table, cap, raced, trail, ld>>
    /\ IF g.err # Nil \/ ~g.ok
       THEN /\ last' = [op |-> op, in |-> in, err |-> g.err, calls |-> g.s.calls,
                        pre |-> table, precap |-> cap, n |-> g.n, ok |-> g.ok]
            /\ UNCHANGED pend
       ELSE /\ pend' = [op |-> op, in |-> in, calls |-> g.s.calls, n |-> g.n,
                        keys |-> IF op = "Delete" THEN deleteKeys(g.n)
                                 ELSE deleteEdgeKeys(g.n, in.child)]
            /\ UNCHANGED last

BeginDelete ==
    \E i \in DeleteInputs :
        GotForDelete("Delete", i, Get(Cur2, i.id, i.failQuery))

BeginDeleteEdge ==
    \E i \in DeleteEdgeInputs :
        GotForDelete("DeleteEdge", i, Get(Cur2, i.parent, i.failQuery))

\* The BatchDelete of the delete in progress has returned r, and so the delete.
DeleteReturned(r) ==
    /\ table' = r.s.table
    /\ last' = [op |-> pend.op, in |-> pend.in, err |-> r.err, calls |-> r.s.calls,
                pre |-> table, precap |-> cap, n |-> pend.n, ok |-> TRUE]
    /\ pend' = NoPend
    /\ UNCHANGED <<cap, raced, nops, trail, ld>>

FinishDelete ==
    /\ pend.op # "none"
    /\ DeleteReturned(deleteBatch([table |-> table, cap |-> zeroCapacity,
                                   calls |-> pend.calls],
                                  pend.keys, pend.in.failDelete))

NextConc ==
    \/ DoPut
    \/ DoPutNodeData
    \/ DoPutEdges
    \/ DoPutEdgeData
    \/ BeginDelete
    \/ BeginDeleteEdge
    \/ FinishDelete

SpecConc == Init /\ [][NextConc]_vars

(***************************************************************************)
(* Get over any answer of the KVClient.  The DB interface is all the Store *)
(* knows of the table, and the table is open to other writers, so the      *)
(* items QueryByID returns are an input of Get: any records of the         *)
(* partition, in any order, among them records the Store cannot decode.    *)
(***************************************************************************)
\* The longest answer of QueryByID.
MaxItems == 3

\* A record whose range key is none of the six kinds.
foreignRecord(id) == [id |-> id, rng |-> <<"x">>, attrs |-> {}]

\* The name of a data type that is not registered with the Store.
typeU == <<"U">>

\* The records an answer is drawn from: no two of them have the same key.
ItemPool ==
    {newNodeRecord(idA),
     newDataRecord(idA, RFNodeData(typeT), typeT, 1),
     newRecord(idA, RFChild(idB)),
     newDataRecord(idA, RFChildData(idB, typeT), typeT, 2),
     newRecord(idA, RFChild(idSlash)),
     newRecord(idA, RFParent(idB)),
     newDataRecord(idA, RFParentData(idB, typeT), typeT, 1),
     newDataRecord(idA, RFNodeData(typeU), typeU, 2),
     newDataRecord(idA, RFChildData(idB, typeU), typeU, 1),
     newDataRecord(idA, RFParentData(idB, typeU), typeU, 2),
     foreignRecord(idA)}

ItemSeqs ==
    {its \in UNION {[1..k -> ItemPool] : k \in 0..MaxItems} :
        \A i, j \in 1..Len(its) : its[i] = its[j] => i = j}

\* QueryByID of a client that answers with these items.
QueryAnswered(s, idValue, items) ==
    [s     |-> [s EXCEPT !.calls = Append(@, [call |-> "QueryByID",
                                              arg  |-> {[id |-> idValue]},
                                              fail |-> FALSE])],
     items |-> items, cc |-> readCapacity, err |-> Nil]

\* Store.Get of idA by a new Store value from such a client.
DoGetAnswered ==
    /\ nops = 0
    /\ \E its \in ItemSeqs :
           Returned("Get", [id |-> idA, fail |-> FALSE, items |-> its],
                    getQueried(QueryAnswered(Cur, idA, its)))

NextGet == DoGetAnswered

SpecGet == Init /\ [][NextGet]_vars

(***************************************************************************)
(* The range-key codec on its own: one call of Encode followed by Decode,  *)
(* or one call of Decode, with any argument within the bounds.             *)
(***************************************************************************)
\* The longest ID or type name of an encoded RangeField.
MaxIDLen == 2
\* The most segments of a key given to Decode.
MaxSegs == 5

\* The characters of IDs and type names: a letter, the separator, the escape
\* character and the bytes of a non-ASCII character.
CodecAlphabet == {"a", "/", "%"} \cup NonASCII

\* The IDs and type names: every short string, and the words of the key format.
CodecStrings ==
    UNION {[1..k -> CodecAlphabet] : k \in 0..MaxIDLen} \cup {sNode, sData}

\* The values of the six RangeField kinds.
RangeFields ==
    {RFNode}
        \cup {RFNodeData(dt) : dt \in CodecStrings}
        \cup {RFChild(c) : c \in CodecStrings}
        \cup {RFChildData(c, dt) : c \in CodecStrings, dt \in CodecStrings}
        \cup {RFParent(p) : p \in CodecStrings}
        \cup {RFParentData(p, dt) : p \in CodecStrings, dt \in CodecStrings}

\* The segments of the keys given to Decode: the words of the key format, a
\* word that is no tag, the empty segment and a malformed escape.
SegPool == {EmptyStr, sNode, sChild, sParent, sData, <<"a">>, <<"%", "%">>}

\* The segments joined by '/', unescaped as they are.
joinSegs(segs) ==
    Concat([i \in 1..Len(segs) |->
              (IF i > 1 THEN <<"/">> ELSE << >>) \o segs[i]])

\* The keys given to Decode.
Keys == {joinSegs(segs) : segs \in UNION {[1..k -> SegPool] : k \in 1..MaxSegs}}

\* Decode of key has returned d, in the call op of the argument in.
Decoded(op, in, key, d) ==
    /\ nops' = 1
    /\ last' = [op |-> op, in |-> in, key |-> key, f |-> d.f, ok |-> d.ok,
                err |-> Nil, calls |-> << >>, pre |-> table, precap |-> cap,
                n |-> NewNode(EmptyStr)]
    /\ UNCHANGED <<table, cap, pend, raced, trail, ld>>

\* x.Encode() and Decode of what it returned.
EncodedDecoded(x, key) == Decoded("Encode", x, key, Decode(key))

DoEncodeDecode ==
    /\ nops = 0
    /\ \E x \in RangeFields : EncodedDecoded(x, Encode(x))

DoDecode ==
    /\ nops = 0
    /\ \E k \in Keys : Decoded("Decode", k, k, Decode(k))

NextCodec == DoEncodeDecode \/ DoDecode

SpecCodec == Init /\ [][NextCodec]_vars

(***************************************************************************)
(* The node loader of one request (NodeDataLoaderMiddlware.ServeHTTP).     *)
(* The handler of the request has callers that call LoadAll; the loader    *)
(* gathers the IDs in batches; a batch that is full or whose delay has     *)
(* passed is handed to Fetch in a goroutine of its own; Fetch starts one   *)
(* goroutine per ID and waits for all of them.  The increments of the two  *)
(* counters of the stats are a read and a write each, with no lock.        *)
(***************************************************************************)
\* The most IDs of a batch (MaxBatch of the NodeLoaderConfig, 10 in ServeHTTP).
MaxBatch == 2
\* The number of LoadAll calls of a request.
MaxLoads == 2
\* The number of IDs the LoadAll calls of a request ask for, repeats counted.
MaxAsked == 3

idC       == <<"c">>
idUnknown == <<"u", "n", "k", "n", "o", "w", "n">>
idError   == <<"e", "r", "r", "o", "r">>

\* The nodes of the inMemoryNodeGetter.
Stored == {idA, idB, idC}

errNodeGetFailure == [msg |-> "node get failure", cause |-> ""]

\* inMemoryNodeGetter.Get
NodeGet(id) ==
    IF id = idError
    THEN [n |-> NewNode(EmptyStr), ok |-> FALSE, err |-> errNodeGetFailure]
    ELSE IF id \in Stored
    THEN [n |-> NewNode(id), ok |-> TRUE, err |-> Nil]
    ELSE [n |-> NewNode(EmptyStr), ok |-> FALSE, err |-> Nil]

\* A *pregel.Node: nil, or the address of a node.
NilNode  == [nil |-> TRUE, n |-> NewNode(EmptyStr)]
PtrTo(n) == [nil |-> FALSE, n |-> n]

\* The lists of IDs given to LoadAll.
LoadInputs ==
    {<< >>, <<idA>>, <<idA, idB>>, <<idA, idError>>, <<idA, idUnknown>>,
     <<idA, idA>>, <<idA, idB, idC>>}

\* Whether the loader has resolved the ID or is resolving it.
memoizedNever(batches, key) == FALSE

memoized(batches, key) ==
    \E b \in 1..Len(batches) : \E p \in 1..Len(batches[b].keys) :
        batches[b].keys[p] = key

\* Whether a batch of these IDs has reached the maximum size.
fullNever(keys) == FALSE

fullLate(keys) == Len(keys) > MaxBatch

full(keys) == Len(keys) >= MaxBatch

\* A batch of one ID, which waits for more unless one ID fills it.
newBatch(key) ==
    [keys  |-> <<key>>,
     phase |-> IF full(<<key>>) THEN "fired" ELSE "open",
     by    |-> IF full(<<key>>) THEN "size" ELSE "none",
     ftmp  |-> 0, nodes |-> << >>, errs |-> << >>, task |-> << >>, ttmp |-> << >>]

\* The batch with one more ID, fired when that fills it.
grown(batch, key) ==
    [batch EXCEPT !.keys  = Append(@, key),
                  !.phase = IF full(Append(batch.keys, key)) THEN "fired" ELSE "open",
                  !.by    = IF full(Append(batch.keys, key)) THEN "size" ELSE "none"]

\* The batches after a caller has asked for the ID: nothing new for a memoized
\* ID; else the ID joins the batch that is open, or opens one.
submitted(batches, key) ==
    IF memoized(batches, key) THEN batches
    ELSE IF Len(batches) > 0 /\ batches[Len(batches)].phase = "open"
    THEN [batches EXCEPT ![Len(batches)] = grown(@, key)]
    ELSE Append(batches, newBatch(key))

\* The result slot of an ID: its batch and its position there.
thunkOf(batches, key) ==
    LET b == CHOOSE x \in 1..Len(batches) :
                 /\ \E p \in 1..Len(batches[x].keys) : batches[x].keys[p] = key
                 /\ \A y \in (x + 1)..Len(batches) :
                        \A p \in 1..Len(batches[y].keys) : batches[y].keys[p] # key
    IN  [b |-> b,
         pos |-> CHOOSE p \in 1..Len(batches[b].keys) :
                     /\ batches[b].keys[p] = key
                     /\ \A q \in (p + 1)..Len(batches[b].keys) :
                            batches[b].keys[q] # key]

\* A caller calls LoadAll(ids).
StartLoadAll(c) ==
    /\ ~ld.ended
    /\ ld.loads < MaxLoads
    /\ ld.callers[c].phase \in {"idle", "returned"}
    /\ \E ids \in LoadInputs :
         /\ ld.asked + Len(ids) <= MaxAsked
         /\ ld' = [ld EXCEPT !.loads = @ + 1,
                            !.asked = @ + Len(ids),
                            !.callers[c] =
                                [phase  |-> IF ids = << >> THEN "waiting"
                                            ELSE "submitting",
                                 ids    |-> ids, i |-> 1, thunks |-> << >>,
                                 nodes  |-> << >>, errs |-> << >>]]
    /\ UNCHANGED <<table, cap, last, pend, raced, nops, trail>>

\* The loader, with bs its batches once the caller has asked for its next ID.
Asked(c, key, bs) ==
    ld' = [ld EXCEPT !.batches = bs,
                     !.callers[c].thunks = Append(@, thunkOf(bs, key)),
                     !.callers[c].i = @ + 1,
                     !.callers[c].phase =
                         IF ld.callers[c].i = Len(ld.callers[c].ids)
                         THEN "waiting" ELSE "submitting"]

\* LoadAll asks for its next ID.
Submit(c) ==
    /\ ld.callers[c].phase = "submitting"
    /\ Asked(c, ld.callers[c].ids[ld.callers[c].i],
             submitted(ld.batches, ld.callers[c].ids[ld.callers[c].i]))
    /\ UNCHANGED <<table, cap, last, pend, raced, nops, trail>>

\* A delay that never passes.
TimerNever == FALSE /\ UNCHANGED vars

\* The delay of the open batch has passed.
TimerFires ==
    /\ Len(ld.batches) > 0
    /\ ld.batches[Len(ld.batches)].phase = "open"
    /\ ld' = [ld EXCEPT !.batches[Len(ld.batches)].phase = "fired",
                        !.batches[Len(ld.batches)].by = "timer"]
    /\ UNCHANGED <<table, cap, last, pend, raced, nops, trail>>

\* Fetch of a batch that has fired is entered: stats.FetchesMade is read.
FetchEnter(b) ==
    /\ ld.batches[b].phase = "fired"
    /\ ld' = [ld EXCEPT !.batches[b].phase = "entered",
                        !.batches[b].ftmp = ld.stats.FetchesMade]
    /\ UNCHANGED <<table, cap, last, pend, raced, nops, trail>>

\* stats.FetchesMade is written; nodes and errs are made and the goroutines of the
\* IDs started.
FetchSpawn(b) ==
    /\ ld.batches[b].phase = "entered"
    /\ ld' = [ld EXCEPT !.stats.FetchesMade = ld.batches[b].ftmp + 1,
                        !.batches[b].phase = "fetching",
                        !.batches[b].nodes = [i \in 1..Len(ld.batches[b].keys) |-> NilNode],
                        !.batches[b].errs = [i \in 1..Len(ld.batches[b].keys) |-> Nil],
                        !.batches[b].task = [i \in 1..Len(ld.batches[b].keys) |-> "todo"],
                        !.batches[b].ttmp = [i \in 1..Len(ld.batches[b].keys) |-> 0]]
    /\ UNCHANGED <<table, cap, last, pend, raced, nops, trail>>

\* The slot of the goroutine started with this index, the nth to call Get.
slotByOrder(index, nth) == nth

slotOf(index, nth) == index

\* errs[index] = err
withErrAll(errs, index, err) == [i \in DOMAIN errs |-> err]

withErr(errs, index, err) == [errs EXCEPT ![index] = err]

\* The batch after the goroutine of index i has got r from NodeGetter.Get and has
\* written it to the slot: the error, or the address of the node when found.
gotNode(batch, i, slot, r) ==
    [batch EXCEPT !.task[i] = "got",
                  !.errs  = IF r.err # Nil THEN withErr(@, slot, r.err) ELSE @,
                  !.nodes = IF r.err = Nil /\ r.ok
                            THEN [@ EXCEPT ![slot] = PtrTo(r.n)] ELSE @]

\* The goroutine of an ID calls NodeGetter.Get, fills its slot and, in its
\* deferred function, reads stats.NodesLoaded.
TaskGet(b, i) ==
    /\ i \in DOMAIN ld.batches[b].task
    /\ ld.batches[b].task[i] = "todo"
    /\ ld' = [ld EXCEPT
                !.batches[b] =
                    [gotNode(@, i,
                             slotOf(i, 1 + Cardinality({j \in 1..Len(@.task) :
                                                          @.task[j] # "todo"})),
                             NodeGet(@.keys[i]))
                        EXCEPT !.ttmp[i] = ld.stats.NodesLoaded]]
    /\ UNCHANGED <<table, cap, last, pend, raced, nops, trail>>

\* The deferred function writes stats.NodesLoaded and calls wg.Done.
TaskDone(b, i) ==
    /\ i \in DOMAIN ld.batches[b].task
    /\ ld.batches[b].task[i] = "got"
    /\ ld' = [ld EXCEPT !.stats.NodesLoaded = ld.batches[b].ttmp[i] + 1,
                        !.batches[b].task[i] = "done"]
    /\ UNCHANGED <<table, cap, last, pend, raced, nops, trail>>

\* wg.Wait(): every goroutine of the batch has called wg.Done.
joinedFirst(task) == task[1] = "done"

joined(task) == \A i \in 1..Len(task) : task[i] = "done"

\* wg.Wait returns and so does Fetch: the results of the batch are delivered.
FetchReturn(b) ==
    /\ ld.batches[b].phase = "fetching"
    /\ joined(ld.batches[b].task)
    /\ ld' = [ld EXCEPT !.batches[b].phase = "done"]
    /\ UNCHANGED <<table, cap, last, pend, raced, nops, trail>>

\* LoadAll returns the results of its IDs, all their batches being done.
Collect(c) ==
    /\ ld.callers[c].phase = "waiting"
    /\ \A k \in 1..Len(ld.callers[c].thunks) :
           ld.batches[ld.callers[c].thunks[k].b].phase = "done"
    /\ ld' = [ld EXCEPT
                !.callers[c].phase = "returned",
                !.callers[c].nodes =
                    [k \in 1..Len(ld.callers[c].thunks) |->
                        ld.batches[ld.callers[c].thunks[k].b].nodes[
                            ld.callers[c].thunks[k].pos]],
                !.callers[c].errs =
                    [k \in 1..Len(ld.callers[c].thunks) |->
                        ld.batches[ld.callers[c].thunks[k].b].errs[
                            ld.callers[c].thunks[k].pos]]]
    /\ UNCHANGED <<table, cap, last, pend, raced, nops, trail>>

\* The handler has returned: the stats are given to the Stats callback.
EndRequest ==
    /\ ~ld.ended
    /\ \A c \in Callers : ld.callers[c].phase \in {"idle", "returned"}
    /\ ld' = [ld EXCEPT !.ended = TRUE, !.reported = ld.stats]
    /\ UNCHANGED <<table, cap, last, pend, raced, nops, trail>>

NextLoader ==
    \/ \E c \in Callers : StartLoadAll(c)
    \/ \E c \in Callers : Submit(c)
    \/ TimerFires
    \/ \E b \in 1..Len(ld.batches) : FetchEnter(b)
    \/ \E b \in 1..Len(ld.batches) : FetchSpawn(b)
    \/ \E b \in 1..Len(ld.batches) : \E i \in 1..Len(ld.batches[b].keys) : TaskGet(b, i)
    \/ \E b \in 1..Len(ld.batches) : \E i \in 1..Len(ld.batches[b].keys) : TaskDone(b, i)
    \/ \E b \in 1..Len(ld.batches) : FetchReturn(b)
    \/ \E c \in Callers : Collect(c)
    \/ EndRequest

SpecLoader == Init /\ [][NextLoader]_vars

\* The steps that the scheduler and the delay timer take on their own: those
\* of the goroutines of LoadAll and of Fetch, and the delay passing.
LoaderRuns ==
    \/ \E c \in Callers : Submit(c)
    \/ TimerFires
    \/ \E b \in 1..Len(ld.batches) : FetchEnter(b)
    \/ \E b \in 1..Len(ld.batches) : FetchSpawn(b)
    \/ \E b \in 1..Len(ld.batches) : \E i \in 1..Len(ld.batches[b].keys) : TaskGet(b, i)
    \/ \E b \in 1..Len(ld.batches) : \E i \in 1..Len(ld.batches[b].keys) : TaskDone(b, i)
    \/ \E b \in 1..Len(ld.batches) : FetchReturn(b)
    \/ \E c \in Callers : Collect(c)

\* The loader when the scheduler keeps running what can run: while a goroutine
\* can step or the delay of an open batch can pass, one of these steps is
\* taken in the end; every Get returns.  Nothing makes a handler call LoadAll,
\* or the request end.
LoaderFairness == WF_vars(LoaderRuns)

SpecLoaderFair == Init /\ [][NextLoader]_vars /\ LoaderFairness

(***************************************************************************)
(* The cursors of the GraphQL connections (gqlid) and the paging of the    *)
(* edges of a node (filterEdges).                                          *)
(***************************************************************************)
\* The most edges of the node that is paged.
MaxEdges == 3
\* The width of int, 64 in the builds of the program.
IntBits == 4

\* An int is kept as its residue modulo 2^IntBits: 0..MaxInt are themselves,
\* and the residues above MaxInt are the negative ints.
MaxInt   == 2^(IntBits - 1) - 1
MinusOne == 2^IntBits - 1

negative(n) == n > MaxInt
positive(n) == n > 0 /\ n <= MaxInt

\* The int that the sum of two ints is.
wrap(n) == n % 2^IntBits

\* The alphabet of base64.StdEncoding.
B64 ==
    <<"A", "B", "C", "D", "E", "F", "G", "H", "I", "J", "K", "L", "M",
      "N", "O", "P", "Q", "R", "S", "T", "U", "V", "W", "X", "Y", "Z",
      "a", "b", "c", "d", "e", "f", "g", "h", "i", "j", "k", "l", "m",
      "n", "o", "p", "q", "r", "s", "t", "u", "v", "w", "x", "y", "z",
      "0", "1", "2", "3", "4", "5", "6", "7", "8", "9", "+", "/">>

B64Chars == {B64[i] : i \in 1..64}

B64Value(c) == (CHOOSE i \in 1..64 : B64[i] = c) - 1

\* The bytes of the characters of the IDs, and the character of a byte.
byteOf(c) == IF c = "a" THEN 97 ELSE IF c = "b" THEN 98 ELSE 47

charOf(n) ==
    IF n = 97 THEN "a" ELSE IF n = 98 THEN "b" ELSE IF n = 47 THEN "/"
    ELSE "\\x" \o ToString(n)

\* base64.StdEncoding.EncodeToString
RECURSIVE b64Encode(_)
b64Encode(bs) ==
    IF Len(bs) = 0 THEN << >>
    ELSE IF Len(bs) = 1
    THEN <<B64[(bs[1] \div 4) + 1], B64[((bs[1] % 4) * 16) + 1], "=", "=">>
    ELSE IF Len(bs) = 2
    THEN <<B64[(bs[1] \div 4) + 1],
           B64[((bs[1] % 4) * 16) + (bs[2] \div 16) + 1],
           B64[((bs[2] % 16) * 4) + 1], "=">>
    ELSE <<B64[(bs[1] \div 4) + 1],
           B64[((bs[1] % 4) * 16) + (bs[2] \div 16) + 1],
           B64[((bs[2] % 16) * 4) + (bs[3] \div 64) + 1],
           B64[(bs[3] % 64) + 1]>>
         \o b64Encode(SubSeq(bs, 4, Len(bs)))

\* gqlid.Encode
gqlidEncode(s) == b64Encode([i \in 1..Len(s) |-> byteOf(s[i])])

\* The input without its line ends, which DecodeString skips.
RECURSIVE withoutNewlines(_)
withoutNewlines(s) ==
    IF Len(s) = 0 THEN << >>
    ELSE IF s[1] \in {"\n", "\r"} THEN withoutNewlines(Tail(s))
    ELSE <<s[1]>> \o withoutNewlines(Tail(s))

\* base64.StdEncoding.DecodeString of an input without line ends: quanta of
\* four characters, padding only at the end, the spare bits of the last
\* character not looked at.
RECURSIVE b64Decode(_)
b64Decode(s) ==
    IF Len(s) = 0 THEN [bs |-> << >>, ok |-> TRUE]
    ELSE IF Len(s) < 4 \/ s[1] \notin B64Chars \/ s[2] \notin B64Chars
    THEN [bs |-> << >>, ok |-> FALSE]
    ELSE IF s[3] = "="
    THEN IF s[4] = "=" /\ Len(s) = 4
         THEN [bs |-> <<(B64Value(s[1]) * 4) + (B64Value(s[2]) \div 16)>>,
               ok |-> TRUE]
         ELSE [bs |-> << >>, ok |-> FALSE]
    ELSE IF s[3] \notin B64Chars THEN [bs |-> << >>, ok |-> FALSE]
    ELSE IF s[4] = "="
    THEN IF Len(s) = 4
         THEN [bs |-> <<(B64Value(s[1]) * 4) + (B64Value(s[2]) \div 16),
                        ((B64Value(s[2]) % 16) * 16) + (B64Value(s[3]) \div 4)>>,
               ok |-> TRUE]
         ELSE [bs |-> << >>, ok |-> FALSE]
    ELSE IF s[4] \notin B64Chars THEN [bs |-> << >>, ok |-> FALSE]
    ELSE LET rest == b64Decode(SubSeq(s, 5, Len(s)))
         IN  [bs |-> IF rest.ok
                     THEN <<(B64Value(s[1]) * 4) + (B64Value(s[2]) \div 16),
                            ((B64Value(s[2]) % 16) * 16) + (B64Value(s[3]) \div 4),
                            ((B64Value(s[3]) % 4) * 64) + B64Value(s[4])>>
                          \o rest.bs
                     ELSE << >>,
              ok |-> rest.ok]

\* gqlid.Decode: the ID, and whether err is nil.
gqlidDecoded(d) == [id |-> [i \in 1..Len(d.bs) |-> charOf(d.bs[i])], ok |-> d.ok]

gqlidDecode(s) == gqlidDecoded(b64Decode(withoutNewlines(s)))

\* A *string: nil, or the address of a string.
NilStr    == [nil |-> TRUE, v |-> EmptyStr]
StrPtr(s) == [nil |-> FALSE, v |-> s]

\* The index after the first edge with the ID, in edges from position i on; 0
\* when there is none (for i, e := range edges).
RECURSIVE startAfter(_, _, _)
startAfter(edges, afterID, i) ==
    IF i > Len(edges) THEN 0
    ELSE IF edges[i].ID = afterID THEN i
    ELSE startAfter(edges, afterID, i + 1)

\* start: 0, or i + 1 for the index i (from 0) of the edge the cursor names.
startOf(edges, after) ==
    IF after.nil \/ ~gqlidDecode(after.v).ok THEN 0
    ELSE startAfter(edges, gqlidDecode(after.v).id, 1)

\* pi.HasPreviousPage
matched(edges, after) ==
    /\ ~after.nil
    /\ gqlidDecode(after.v).ok
    /\ startAfter(edges, gqlidDecode(after.v).id, 1) > 0

\* end: len(edges), or for first > 0 the int start + first, cut to len(edges).
endOf(edges, first, start) ==
    IF positive(first)
    THEN IF ~negative(wrap(start + first)) /\ wrap(start + first) > Len(edges)
         THEN Len(edges)
         ELSE wrap(start + first)
    ELSE Len(edges)

\* What filterEdges returns with these start and end: edges[start:end] panics
\* when end is below start.
filtered(edges, first, after, start, end) ==
    IF start # end /\ (negative(end) \/ end < start)
    THEN [panic |-> TRUE, filtered |-> << >>,
          pi |-> [HasPreviousPage |-> matched(edges, after),
                  HasNextPage |-> positive(first),
                  StartCursor |-> NilStr, EndCursor |-> NilStr]]
    ELSE [panic |-> FALSE,
          filtered |-> SubSeq(edges, start + 1, end),
          pi |-> [HasPreviousPage |-> matched(edges, after),
                  HasNextPage |-> positive(first) /\ end < Len(edges),
                  StartCursor |-> IF end > start
                                  THEN StrPtr(gqlidEncode(edges[start + 1].ID))
                                  ELSE NilStr,
                  EndCursor |-> IF end > start
                                THEN StrPtr(gqlidEncode(edges[end].ID))
                                ELSE NilStr]]

filterEdgesFrom(edges, first, after, start) ==
    filtered(edges, first, after, start, endOf(edges, first, start))

filterEdges(edges, first, after) ==
    filterEdgesFrom(edges, first, after, startOf(edges, after))

\* The IDs of the edges, the counts asked for and the cursors given.
EdgeIDs == {EmptyStr, idA, idB}

EdgeLists ==
    UNION {[1..k -> {NewEdge(id, << >>) : id \in EdgeIDs}] : k \in 0..MaxEdges}

FirstValues == {MinusOne, 0, 1, 2, MaxInt}

Cursors ==
    {NilStr}
    \cup {StrPtr(gqlidEncode(id)) : id \in EdgeIDs \cup {<<"a", "b">>}}
    \cup {StrPtr(c) : c \in {<<"Y", "R", "=", "=">>, <<"Y", "Q">>,
                             <<"Y", "Q", "=", "=", "\n">>,
                             <<"%", "%", "%", "%">>,
                             <<"Y", "Q", "=", "=", "Y", "g", "=", "=">>}}

\* filterEdges has returned r, or has panicked.
Filtered(in, r) ==
    /\ nops' = 1
    /\ last' = [op |-> "filterEdges", in |-> in, r |-> r, err |-> Nil,
                calls |-> << >>, pre |-> table, precap |-> cap,
                n |-> NewNode(EmptyStr)]
    /\ UNCHANGED <<table, cap, pend, raced, trail, ld>>

DoFilterEdges ==
    /\ nops = 0
    /\ \E edges \in EdgeLists : \E first \in FirstValues : \E after \in Cursors :
           Filtered([edges |-> edges, first |-> first, after |-> after],
                    filterEdges(edges, first, after))

NextFilter == DoFilterEdges

SpecFilter == Init /\ [][NextFilter]_vars

(***************************************************************************)
(* Vocabulary of the properties.                                           *)
(***************************************************************************)
\* The marker record and the data record of a logical key.
MarkerRec(id, rf)     == [id |-> id, rng |-> Encode(rf), attrs |-> {}]
DataRec(id, rf, t, v) == [id |-> id, rng |-> Encode(rf), attrs |-> {[t |-> t, v |-> v]}]

\* The records of the edge from parent p to child c with this data, on both sides.
EdgeRecords(p, c, data) ==
    {MarkerRec(p, RFChild(c)), MarkerRec(c, RFParent(p))}
    \cup {DataRec(p, RFChildData(c, t), t, data[t]) : t \in DOMAIN data}
    \cup {DataRec(c, RFParentData(p, t), t, data[t]) : t \in DOMAIN data}

\* The records of a node: marker, data, child edges and parent edges.
NodeRecords(n) ==
    {MarkerRec(n.ID, RFNode)}
    \cup {DataRec(n.ID, RFNodeData(t), t, n.Data[t]) : t \in DOMAIN n.Data}
    \cup UNION {EdgeRecords(n.ID, n.Children[i].ID, n.Children[i].Data) :
                   i \in 1..Len(n.Children)}
    \cup UNION {EdgeRecords(n.Parents[i].ID, n.ID, n.Parents[i].Data) :
                   i \in 1..Len(n.Parents)}

\* What the range key of a record decodes to.
FieldOf(x) == Decode(x.rng).f

PutFamily == {"Put", "PutNodeData", "PutEdges", "PutEdgeData"}
Deletes   == {"Delete", "DeleteEdge"}

\* The last operation was given an empty ID where it requires one.
EmptyIDGiven ==
    \/ last.op = "Put" /\ \E i \in 1..Len(last.in.nodes) : last.in.nodes[i].ID = EmptyStr
    \/ last.op = "PutNodeData" /\ last.in.id = EmptyStr
    \/ last.op = "PutEdges" /\ last.in.parent = EmptyStr
    \/ last.op = "PutEdgeData"
         /\ (last.in.parent = EmptyStr \/ last.in.child = EmptyStr)

\* The calls of this kind that the last operation made.
CallsOf(kind) == {i \in 1..Len(last.calls) : last.calls[i].call = kind}

\* The records that differ between the table before and after the last operation.
Changed == (table \ last.pre) \cup (last.pre \ table)

(***************************************************************************)
(* C1.  One caller: after any sequence of Put, PutNodeData, PutEdges,      *)
(* PutEdgeData, Delete and DeleteEdge, the table has the record            *)
(* (P, child/C) iff it has (C, parent/P), and (P, child/C/data/T) iff it   *)
(* has (C, parent/P/data/T), the two with the same value.                  *)
(***************************************************************************)
C1_MirrorConsistent ==
    \A x \in table :
        LET f == FieldOf(x)
        IN  /\ f.kind = "Child" =>
                  [id |-> f.ID, rng |-> Encode(RFParent(x.id)), attrs |-> {}] \in table
            /\ f.kind = "Parent" =>
                  [id |-> f.ID, rng |-> Encode(RFChild(x.id)), attrs |-> {}] \in table
            /\ f.kind = "ChildData" =>
                  [id |-> f.ID, rng |-> Encode(RFParentData(x.id, f.DataType)),
                   attrs |-> x.attrs] \in table
            /\ f.kind = "ParentData" =>
                  [id |-> f.ID, rng |-> Encode(RFChildData(x.id, f.DataType)),
                   attrs |-> x.attrs] \in table

\* A delete has removed records and an edge with data is still there, on both sides.
C1_Witness ==
    /\ last.op \in Deletes
    /\ last.err = Nil
    /\ table # last.pre
    /\ \E x \in table : FieldOf(x).kind = "ChildData"
    /\ \E x \in table : FieldOf(x).kind = "ParentData"

(***************************************************************************)
(* C2.  Two callers: a Delete or DeleteEdge that found its node and        *)
(* returned nil leaves a record it was meant to remove only when a write   *)
(* of the other caller came between a Get and the BatchDelete of a delete; *)
(* and with such a write that state is reached (C2_Witness).               *)
(***************************************************************************)
\* The records the last delete was meant to remove that are still in the table.
StaleAfterDelete ==
    IF last.op = "Delete"
    THEN {x \in table :
            \/ x.id = last.in.id
            \/ /\ FieldOf(x).kind \in {"Child", "ChildData", "Parent", "ParentData"}
               /\ FieldOf(x).ID = last.in.id}
    ELSE IF last.op = "DeleteEdge"
    THEN {x \in table :
            \/ /\ x.id = last.in.parent
               /\ FieldOf(x).kind \in {"Child", "ChildData"}
               /\ FieldOf(x).ID = last.in.child
            \/ /\ x.id = last.in.child
               /\ FieldOf(x).kind \in {"Parent", "ParentData"}
               /\ FieldOf(x).ID = last.in.parent}
    ELSE {}

C2_StaleOnlyAfterInterleaving ==
    (last.op \in Deletes /\ last.ok /\ last.err = Nil /\ StaleAfterDelete # {})
        => raced

\* Delete(N) has returned nil, and an edge record of N written after its Get and the
\* mirror of that record on another partition are still in the table.
C2_Witness ==
    /\ last.op = "Delete"
    /\ last.ok
    /\ last.err = Nil
    /\ "BatchDelete" \in {last.calls[i].call : i \in 1..Len(last.calls)}
    /\ \E x \in StaleAfterDelete : x.id = last.in.id /\ FieldOf(x).kind = "Child"
    /\ \E x \in StaleAfterDelete : x.id # last.in.id /\ FieldOf(x).kind = "Parent"

C6_DeleteEdgeValidates ==
    (last.op = "DeleteEdge"
        /\ (last.in.parent = EmptyStr \/ last.in.child = EmptyStr)) =>
        /\ last.err = ErrMissingNodeID
        /\ last.calls = << >>

(***************************************************************************)
(* C7.  Every record of the table has a non-empty partition key, and       *)
(* every Child, ChildData, Parent or ParentData range key names a          *)
(* non-empty node ID.                                                      *)
(***************************************************************************)
C7_NoEmptyIDPersisted ==
    \A x \in table :
        /\ x.id # EmptyStr
        /\ FieldOf(x).kind \in {"Child", "ChildData", "Parent", "ParentData"} =>
               FieldOf(x).ID # EmptyStr

OfListedEdge(x) ==
    \E i \in 1..Len(last.in.edges) :
        LET e == last.in.edges[i]
            f == FieldOf(x)
        IN  \/ /\ x.id = last.in.parent
               /\ f.ID = e.ID
               /\ \/ f.kind = "Child"
                  \/ f.kind = "ChildData" /\ f.DataType \in DOMAIN e.Data
            \/ /\ x.id = e.ID
               /\ f.ID = last.in.parent
               /\ \/ f.kind = "Parent"
                  \/ f.kind = "ParentData" /\ f.DataType \in DOMAIN e.Data

C9_PutEdgesFrame ==
    last.op = "PutEdges" =>
        /\ \A x \in Changed : OfListedEdge(x)
        /\ \A x \in last.pre : \E y \in table : keyOf(y) = keyOf(x)
        /\ \A x \in table :
              FieldOf(x).kind \in {"Node", "NodeData"} => x \in last.pre

\* PutEdges has written an edge of a parent that has no marker, on a table that has
\* a marker, node data and another edge with data.
C9_Witness ==
    /\ last.op = "PutEdges"
    /\ last.err = Nil
    /\ Changed # {}
    /\ MarkerRec(last.in.parent, RFNode) \notin table
    /\ \E x \in table : FieldOf(x).kind = "NodeData"
    /\ \E x \in table : FieldOf(x).kind = "ChildData" /\ ~OfListedEdge(x)

(***************************************************************************)
(* C10.  Get(id) that returns no error returns ok = true exactly when the  *)
(* table has a record with partition key id.                               *)
(***************************************************************************)
C10_GetFoundIffRecords ==
    (last.op = "Get" /\ last.err = Nil) =>
        (last.ok <=> \E x \in table : x.id = last.in.id)

(***************************************************************************)
(* C11.  A Get that returns an error returns an empty Node and ok = false: *)
(* nothing of the records folded before the failing one.                   *)
(***************************************************************************)
C11_NoPartialNode ==
    (last.op = "Get" /\ last.err # Nil) =>
        /\ ~last.ok
        /\ last.n = NewNode(EmptyStr)

(***************************************************************************)
(* C12.  When QueryByID fails with E, Get returns E itself, ok = false and *)
(* an empty Node, and Delete and DeleteEdge return E and make no           *)
(* BatchDelete call; when BatchPut or BatchDelete fails with E the         *)
(* operation returns E itself.                                             *)
(***************************************************************************)
\* The last operation made a KVClient call of this kind that failed.
FailedCall(kind) == \E i \in CallsOf(kind) : last.calls[i].fail

C12_ErrorIdentity ==
    /\ (last.op \in {"Get", "Delete", "DeleteEdge"} /\ FailedCall("QueryByID")) =>
          /\ last.err = errDatabase
          /\ ~last.ok
          /\ last.n = NewNode(EmptyStr)
          /\ CallsOf("BatchDelete") = {}
    /\ (FailedCall("BatchPut") \/ FailedCall("BatchDelete")) =>
          last.err = errDatabase

(***************************************************************************)
(* C13.  Get and Delete with an empty id make no KVClient call and return  *)
(* no error, Get with ok = false.                                          *)
(***************************************************************************)
C13_EmptyIDNoCalls ==
    (last.op \in {"Get", "Delete"} /\ last.in.id = EmptyStr) =>
        /\ last.calls = << >>
        /\ last.err = Nil
        /\ ~last.ok
        /\ table = last.pre

\* Delete of the empty id has returned on a table that has records of that partition.
C13_Witness ==
    /\ last.op = "Delete"
    /\ last.in.id = EmptyStr
    /\ \E x \in table : x.id = EmptyStr

(***************************************************************************)
(* C14.  The Node Get folds from an answer of the client is the same for   *)
(* every order of the answer, up to the order of Children and Parents:     *)
(* every child and parent ID the records name is there once, with the same *)
(* data, whether its marker comes before or after its data records.        *)
(***************************************************************************)
\* The Node the loop of Get folds from these items.
Folded(items) == populateAll(items, [n |-> NewNode(EmptyStr), err |-> Nil]).n

\* The orders of a sequence.
Orders(seq) ==
    {[i \in 1..Len(seq) |-> seq[p[i]]] :
        p \in {q \in [1..Len(seq) -> 1..Len(seq)] :
                  \A i, j \in 1..Len(seq) : q[i] = q[j] => i = j}}

\* The IDs the items of these kinds name.
NamedIDs(items, kinds) ==
    {FieldOf(items[i]).ID : i \in {j \in 1..Len(items) : FieldOf(items[j]).kind \in kinds}}

\* Every ID of ids is the ID of exactly one edge of the list, and no other is.
ListsOnce(edges, ids) ==
    /\ {edges[i].ID : i \in 1..Len(edges)} = ids
    /\ \A i, j \in 1..Len(edges) : edges[i].ID = edges[j].ID => i = j

\* The node with its edge lists taken as sets.
Unordered(n) ==
    [ID |-> n.ID, Data |-> n.Data,
     Children |-> SeqToSet(n.Children), Parents |-> SeqToSet(n.Parents)]

C14_OrderIndependent ==
    (last.op = "Get" /\ last.err = Nil) =>
        /\ ListsOnce(last.n.Children, NamedIDs(last.in.items, {"Child", "ChildData"}))
        /\ ListsOnce(last.n.Parents, NamedIDs(last.in.items, {"Parent", "ParentData"}))
        /\ \A its \in Orders(last.in.items) : Unordered(Folded(its)) = Unordered(last.n)

\* Get has folded the data record of an edge, then another record, then its marker.
C14_Witness ==
    /\ last.op = "Get"
    /\ last.err = Nil
    /\ Len(last.in.items) = 3
    /\ FieldOf(last.in.items[1]).kind = "ChildData"
    /\ FieldOf(last.in.items[3]).kind = "Child"
    /\ FieldOf(last.in.items[3]).ID = FieldOf(last.in.items[1]).ID
    /\ Len(last.n.Children) = 1
    /\ last.n.Children[1].Data # EmptyData

(***************************************************************************)
(* C15.  Put(node), Delete(node.ID), Get(node.ID), one after the other and *)
(* with no failing KVClient call: the Get returns ok = false and no error. *)
(***************************************************************************)
\* The node of the Put the trail starts with.
TrailNode == trail[1].in.nodes[1]

\* The trail is Put(node), Delete(node.ID), Get(node.ID) without a failing call.
PutDeleteGet ==
    /\ Len(trail) = 3
    /\ trail[2].op = "Delete"
    /\ trail[2].in.id = TrailNode.ID
    /\ ~trail[2].in.failQuery
    /\ ~trail[2].in.failDelete
    /\ trail[3].in.id = TrailNode.ID
    /\ ~trail[3].in.fail

C15_PutDeleteGet ==
    PutDeleteGet => (~last.ok /\ last.err = Nil)

\* The three have run for a node that has a child edge with data.
C15_Witness ==
    /\ PutDeleteGet
    /\ TrailNode.Children # << >>
    /\ TrailNode.Children[1].Data # EmptyData
    /\ last.op = "Get"
    /\ CallsOf("QueryByID") # {}

(***************************************************************************)
(* C16.  When its Get finds the node, Delete passes to BatchDelete exactly *)
(* the keys of the node marker, of the node's data, and of the forward and *)
(* mirror marker and data records of every child and every parent edge.    *)
(***************************************************************************)
C16_DeleteKeySet ==
    (last.op = "Delete" /\ last.ok) =>
        /\ Cardinality(CallsOf("BatchDelete")) = 1
        /\ \A i \in CallsOf("BatchDelete") :
              last.calls[i].arg = {keyOf(x) : x \in NodeRecords(last.n)}

\* Delete has found a node with data, a child edge with data and a parent edge.
C16_Witness ==
    /\ last.op = "Delete"
    /\ last.ok
    /\ last.err = Nil
    /\ last.n.Data # EmptyData
    /\ last.n.Children # << >>
    /\ last.n.Children[1].Data # EmptyData
    /\ last.n.Parents # << >>

(***************************************************************************)
(* C17.  One caller: after Delete(id) has returned nil the table has no    *)
(* record with partition key id and no Child, ChildData, Parent or         *)
(* ParentData record that names id.                                        *)
(***************************************************************************)
C17_DeleteLeavesNothing ==
    (last.op = "Delete" /\ last.err = Nil) => StaleAfterDelete = {}

(***************************************************************************)
(* C18.  Delete(id) whose Get reports the node as not found returns nil,   *)
(* makes no BatchDelete call and leaves the table as it was.               *)
(***************************************************************************)
C18_DeleteNotFound ==
    (last.op = "Delete" /\ ~last.ok /\ ~FailedCall("QueryByID")) =>
        /\ last.err = Nil
        /\ CallsOf("BatchDelete") = {}
        /\ table = last.pre

\* Delete has queried a partition that has records and no marker, with a client
\* whose BatchDelete would fail.
C18_Witness ==
    /\ last.op = "Delete"
    /\ ~last.ok
    /\ last.err = Nil
    /\ CallsOf("QueryByID") # {}
    /\ last.in.failDelete
    /\ \E x \in table : x.id = last.in.id

(***************************************************************************)
(* C19.  DeleteEdge(parent, child) returns nil and makes no BatchDelete    *)
(* call when the parent is not found or has no child edge with ID child.   *)
(***************************************************************************)
C19_DeleteEdgeNoOp ==
    (/\ last.op = "DeleteEdge"
     /\ ~FailedCall("QueryByID")
     /\ (~last.ok \/ GetChild(last.n, last.in.child) = 0)) =>
        /\ last.err = Nil
        /\ CallsOf("BatchDelete") = {}

(***************************************************************************)
(* C20.  DeleteEdge(parent, B) that finds the edge deletes exactly the     *)
(* forward and mirror marker and data keys of edge B and leaves every      *)
(* other record as it was; after Put(parent with children A and B) and     *)
(* DeleteEdge(parent, B), Get(parent) lists A as a child with its data.    *)
(***************************************************************************)
\* The keys of the edge the last DeleteEdge was asked to delete, as its Get found it.
AskedEdgeKeys ==
    {keyOf(x) : x \in EdgeRecords(last.in.parent, last.in.child,
                                  last.n.Children[GetChild(last.n, last.in.child)].Data)}

\* The trail is Put(node), DeleteEdge(node.ID, child), Get(node.ID) without a failing
\* call, for a node that was put with child edges only.
PutDeleteEdgeGet ==
    /\ Len(trail) = 3
    /\ TrailNode.Parents = << >>
    /\ trail[2].op = "DeleteEdge"
    /\ trail[2].in.parent = TrailNode.ID
    /\ ~trail[2].in.failQuery
    /\ ~trail[2].in.failDelete
    /\ trail[3].in.id = TrailNode.ID
    /\ ~trail[3].in.fail

C20_DeleteEdgeScoped ==
    /\ (/\ last.op = "DeleteEdge"
        /\ last.ok
        /\ last.err = Nil
        /\ GetChild(last.n, last.in.child) # 0) =>
          /\ \A i \in CallsOf("BatchDelete") : last.calls[i].arg = AskedEdgeKeys
          /\ table = {x \in last.pre : keyOf(x) \notin AskedEdgeKeys}
    /\ PutDeleteEdgeGet =>
          /\ last.err = Nil
          /\ last.ok
          /\ \A i \in 1..Len(TrailNode.Children) :
                TrailNode.Children[i].ID # trail[2].in.child =>
                    \E j \in 1..Len(last.n.Children) :
                        /\ last.n.Children[j].ID = TrailNode.Children[i].ID
                        /\ \A t \in DOMAIN TrailNode.Children[i].Data :
                              /\ t \in DOMAIN last.n.Children[j].Data
                              /\ last.n.Children[j].Data[t] =
                                     TrailNode.Children[i].Data[t]

\* After Put of a node with two children with data and DeleteEdge of one of them,
\* Get lists the other one only.
C20_Witness ==
    /\ PutDeleteEdgeGet
    /\ Len(TrailNode.Children) = 2
    /\ TrailNode.Children[1].Data # EmptyData
    /\ TrailNode.Children[2].ID = trail[2].in.child
    /\ TrailNode.Children[2].Data # EmptyData
    /\ Len(last.n.Children) = 1
    /\ last.n.Children[1] = TrailNode.Children[1]

(***************************************************************************)
(* C21.  One caller: the three capacity counters of the Store are the sums *)
(* of what the KVClient calls that succeeded have reported; a failed call  *)
(* and a validation failure add nothing.  Stated per operation: the        *)
(* counters after it are the counters before it plus what its successful   *)
(* calls reported.                                                         *)
(***************************************************************************)
\* What the client reported as consumed by a call of the log.
ReportedBy(call) ==
    IF call.fail THEN zeroCapacity
    ELSE IF call.call = "QueryByID" THEN readCapacity
    ELSE writeCapacity

RECURSIVE SumReported(_)
\* The sum of what the calls of a log reported.
SumReported(calls) ==
    IF calls = << >> THEN zeroCapacity
    ELSE LET h == ReportedBy(Head(calls))
             t == SumReported(Tail(calls))
         IN  [c |-> h.c + t.c, r |-> h.r + t.r, w |-> h.w + t.w]

C21_CapacitySums ==
    /\ cap.c = last.precap.c + SumReported(last.calls).c
    /\ cap.r = last.precap.r + SumReported(last.calls).r
    /\ cap.w = last.precap.w + SumReported(last.calls).w

\* A Delete whose query succeeded and whose BatchDelete failed has returned, after
\* operations that have consumed capacity.
C21_Witness ==
    /\ last.op = "Delete"
    /\ FailedCall("BatchDelete")
    /\ last.precap.w > 0
    /\ cap.r = last.precap.r + 1
    /\ cap.w = last.precap.w

KeySegs == Split(last.key)

UnknownTag == KeySegs[1] \notin {sNode, sChild, sParent}

WrongCount ==
    \/ KeySegs[1] = sNode /\ Len(KeySegs) \notin {1, 3}
    \/ KeySegs[1] \in {sChild, sParent} /\ Len(KeySegs) \notin {2, 4}

EmptySegment == \E i \in 1..Len(KeySegs) : KeySegs[i] = EmptyStr

Rejected == ~last.ok /\ last.f = RFNil

C23_DecodeRejects ==
    last.op = "Decode" /\ (UnknownTag \/ WrongCount \/ EmptySegment) => Rejected

(***************************************************************************)
(* C24.  Decode returns (nil, false) for every key with a segment that     *)
(* holds an invalid percent-escape, whatever its tag and segment count.    *)
(***************************************************************************)
BadEscape == \E i \in 1..Len(KeySegs) : ~PathUnescape(KeySegs[i]).ok

C24_BadEscapeRejected ==
    last.op = "Decode" /\ BadEscape => Rejected

(***************************************************************************)
(* C25.  Get never fails because the type tag of a data record is not      *)
(* registered: when every record of the answer has a range key that        *)
(* decodes, Get returns no error, and for every NodeData, ChildData or     *)
(* ParentData record with an unregistered type tag the Data of the node or *)
(* of the edge holds, under that type name, the generic map of the         *)
(* attributes of the record.                                               *)
(***************************************************************************)
\* The data records of the answer whose type tag is not registered.
Unregistered ==
    {itm \in SeqToSet(last.in.items) :
        itm.attrs # {} /\ \A a \in itm.attrs : a.t \notin DataTypes}

\* The Data the record belongs to: of the node, or of the edge its key names.
DataOf(itm) ==
    LET f == FieldOf(itm)
    IN  CASE f.kind = "NodeData"   -> {last.n.Data}
          [] f.kind = "ChildData"  ->
                {last.n.Children[j].Data : j \in {k \in 1..Len(last.n.Children) :
                                                    last.n.Children[k].ID = f.ID}}
          [] f.kind = "ParentData" ->
                {last.n.Parents[j].Data : j \in {k \in 1..Len(last.n.Parents) :
                                                   last.n.Parents[k].ID = f.ID}}
          [] OTHER                 -> {}

C25_UnregisteredKept ==
    last.op = "Get" /\ (\A i \in 1..Len(last.in.items) : Decode(last.in.items[i].rng).ok)
        => /\ last.err = Nil
           /\ \A itm \in Unregistered :
                 /\ Cardinality(DataOf(itm)) = 1
                 /\ \A data \in DataOf(itm) : \A a \in itm.attrs :
                       /\ a.t \in DOMAIN data
                       /\ data[a.t] = [v |-> a.v]

\* The answer had the marker of the node and data records of the unregistered type
\* for the node and for a child; Get found the node with both entries.
C25_Witness ==
    /\ last.op = "Get"
    /\ last.err = Nil
    /\ last.ok
    /\ \E itm \in Unregistered : FieldOf(itm).kind = "NodeData"
    /\ \E itm \in Unregistered : FieldOf(itm).kind = "ChildData"
    /\ typeU \in DOMAIN last.n.Data
    /\ last.n.Data[typeU] = [v |-> 2]

(***************************************************************************)
(* Vocabulary of the properties of the loader.                             *)
(***************************************************************************)
\* The goroutines of the batches that have called NodeGetter.Get.
GetCalls ==
    {bi \in UNION {{<<b, i>> : i \in 1..Len(ld.batches[b].task)} :
                     b \in 1..Len(ld.batches)} :
        ld.batches[bi[1]].task[bi[2]] # "todo"}

\* The calls of NodeGetter.Get with this ID.
GetCallsOf(key) == {bi \in GetCalls : ld.batches[bi[1]].keys[bi[2]] = key}

\* The batches Fetch was invoked with.
FetchCalls ==
    {b \in 1..Len(ld.batches) : ld.batches[b].phase \in {"entered", "fetching", "done"}}

\* The callers whose LoadAll has returned.
ReturnedCallers == {c \in Callers : ld.callers[c].phase = "returned"}

(***************************************************************************)
(* C26.  LoadAll(ids) returns nodes and errs as long as ids, whatever the  *)
(* order in which the goroutines of a batch complete and whatever ids has  *)
(* (repeats, unknown IDs, IDs whose Get fails): nodes[i] is the node of    *)
(* ids[i] when it is found, and nil when it is not found or errs[i] is not *)
(* nil.                                                                    *)
(***************************************************************************)
C26_LoadAllContract ==
    \A c \in ReturnedCallers :
        /\ Len(ld.callers[c].nodes) = Len(ld.callers[c].ids)
        /\ Len(ld.callers[c].errs) = Len(ld.callers[c].ids)
        /\ \A i \in 1..Len(ld.callers[c].ids) :
              /\ ld.callers[c].ids[i] \in Stored =>
                     ld.callers[c].nodes[i] = PtrTo(NewNode(ld.callers[c].ids[i]))
              /\ ld.callers[c].ids[i] \notin Stored =>
                     ld.callers[c].nodes[i] = NilNode
              /\ ld.callers[c].errs[i] # Nil => ld.callers[c].nodes[i] = NilNode

\* LoadAll of three IDs has returned their nodes in the order of the IDs, and in
\* the first batch the goroutine of the second ID had completed before the one of
\* the first ID called Get.
C26_Witness ==
    \E c \in ReturnedCallers :
        /\ ld.callers[c].ids = <<idA, idB, idC>>
        /\ ld.callers[c].nodes =
               <<PtrTo(NewNode(idA)), PtrTo(NewNode(idB)), PtrTo(NewNode(idC))>>
        /\ ld.callers[c].errs = <<Nil, Nil, Nil>>
        /\ ld.batches[1].keys = <<idA, idB>>
        /\ ld.batches[1].ttmp[1] > ld.batches[1].ttmp[2]

(***************************************************************************)
(* C27.  Within one loader NodeGetter.Get is called at most once for each  *)
(* ID: an ID that is repeated in a LoadAll, asked for again by a later     *)
(* LoadAll, or asked for while its batch is pending or being fetched, is   *)
(* served by the result slot it already has.                               *)
(***************************************************************************)
C27_GetOncePerID ==
    \A b \in 1..Len(ld.batches) : \A p \in 1..Len(ld.batches[b].keys) :
        Cardinality(GetCallsOf(ld.batches[b].keys[p])) <= 1

\* Two LoadAll calls that both had the ID a, one of them twice, have returned it
\* after one call of Get.
C27_Witness ==
    /\ ReturnedCallers = Callers
    /\ \E c \in Callers : ld.callers[c].ids = <<idA, idA>>
    /\ \E c \in Callers : ld.callers[c].ids = <<idA>>
    /\ \A c \in Callers : ld.callers[c].nodes[1] = PtrTo(NewNode(idA))
    /\ Cardinality(GetCallsOf(idA)) = 1

(***************************************************************************)
(* C28.  One LoadAll of n distinct IDs on a new loader causes n calls of   *)
(* Get and, as stated, exactly ceil(n / MaxBatch) invocations of Fetch.    *)
(* What holds: n calls of Get and at least ceil(n / MaxBatch) and at most  *)
(* n invocations of Fetch, exactly ceil(n / MaxBatch) when the delay of no *)
(* batch has passed before LoadAll had asked for all its IDs.              *)
(***************************************************************************)
\* The one LoadAll of the request has returned, and its IDs were distinct.
OneLoadAll(c) ==
    /\ ld.loads = 1
    /\ c \in ReturnedCallers
    /\ \A i, j \in 1..Len(ld.callers[c].ids) :
           ld.callers[c].ids[i] = ld.callers[c].ids[j] => i = j

\* ceil(n / MaxBatch)
BatchesFor(n) == (n + MaxBatch - 1) \div MaxBatch

\* A batch other than the last one was fired by its delay.
FiredEarly ==
    \E b \in 1..(Len(ld.batches) - 1) : ld.batches[b].by = "timer"

C29_ErrorIsolated ==
    \A b \in 1..Len(ld.batches) :
        ld.batches[b].phase = "done" =>
            \A p \in 1..Len(ld.batches[b].keys) :
                /\ ld.batches[b].errs[p] # Nil <=> ld.batches[b].keys[p] = idError
                /\ ld.batches[b].keys[p] = idError =>
                       /\ ld.batches[b].errs[p] = errNodeGetFailure
                       /\ ld.batches[b].nodes[p] = NilNode
                /\ ld.batches[b].keys[p] \in Stored =>
                       ld.batches[b].nodes[p] = PtrTo(NewNode(ld.batches[b].keys[p]))

\* Fetch of a batch of a stored ID and the failing ID has returned the node of the
\* one and the error of the other.
C29_Witness ==
    \E b \in 1..Len(ld.batches) :
        /\ ld.batches[b].phase = "done"
        /\ ld.batches[b].keys = <<idA, idError>>
        /\ ld.batches[b].nodes = <<PtrTo(NewNode(idA)), NilNode>>
        /\ ld.batches[b].errs = <<Nil, errNodeGetFailure>>

(***************************************************************************)
(* C30.  When the request has ended, the stats given to the Stats callback *)
(* have NodesLoaded equal to the number of calls of NodeGetter.Get and     *)
(* FetchesMade equal to the number of invocations of Fetch, for every      *)
(* interleaving of the goroutines of the IDs and of the batches.           *)
(***************************************************************************)
C30_StatsExact ==
    ld.ended =>
        /\ ld.reported.NodesLoaded = Cardinality(GetCalls)
        /\ ld.reported.FetchesMade = Cardinality(FetchCalls)

\* C31: Fetch starts one goroutine per key of its batch and returns only when
\* every one of them has finished; once it has returned, no step writes to the
\* nodes or the errs of that batch.
C31_FetchJoinsAll ==
    [][\A b \in 1..Len(ld.batches) :
          /\ ld.batches[b].phase \in {"fetching", "done"}
                => Len(ld.batches[b].task) = Len(ld.batches[b].keys)
          /\ ld.batches[b].phase = "done"
                => /\ \A i \in 1..Len(ld.batches[b].keys) :
                          ld.batches[b].task[i] = "done"
                   /\ ld'.batches[b].nodes = ld.batches[b].nodes
                   /\ ld'.batches[b].errs = ld.batches[b].errs
                   /\ ld'.batches[b].task = ld.batches[b].task]_vars

\* Fetch has returned for a batch of two keys, one found and one failed.
C31_Witness ==
    \E b \in 1..Len(ld.batches) :
        /\ ld.batches[b].phase = "done"
        /\ ld.batches[b].keys = <<idA, idError>>
        /\ ld.batches[b].nodes[1] = PtrTo(NodeGet(idA).n)
        /\ ld.batches[b].errs[2] = errNodeGetFailure

\* C32: provided every NodeGetter.Get call returns, every LoadAll call that has
\* been made eventually returns, whatever the interleaving of the callers, the
\* delay and the goroutines of the fetches.
C32_LoadAllReturns ==
    \A c \in Callers :
        (ld.callers[c].phase \in {"submitting", "waiting"})
            ~> (ld.callers[c].phase = "returned")

\* A LoadAll of three IDs has returned: its first batch fired on reaching the
\* maximum size, the batch of the third ID on its delay.
C32_Witness ==
    \E c \in Callers :
        /\ ld.callers[c].phase = "returned"
        /\ ld.callers[c].ids = <<idA, idB, idC>>
        /\ Len(ld.callers[c].nodes) = 3
        /\ ld.batches[ld.callers[c].thunks[1].b].by = "size"
        /\ ld.batches[ld.callers[c].thunks[3].b].by = "timer"

\* What the cursor of the last filterEdges decodes to, and whether it names an
\* edge.
CursorID == gqlidDecode(last.in.after.v).id

CursorMatches ==
    /\ ~last.in.after.nil
    /\ gqlidDecode(last.in.after.v).ok
    /\ \E m \in 1..Len(last.in.edges) : last.in.edges[m].ID = CursorID

\* The slice that starts after the s first edges and holds at most first edges.
PageFrom(s) ==
    SubSeq(last.in.edges, s + 1,
           IF positive(last.in.first) /\ s + last.in.first < Len(last.in.edges)
           THEN s + last.in.first ELSE Len(last.in.edges))

\* What filterEdges is to return.
PageReturned ==
    /\ ~last.r.panic
    /\ \E s \in 0..Len(last.in.edges) :
          /\ IF CursorMatches THEN s > 0 /\ last.in.edges[s].ID = CursorID
             ELSE s = 0
          /\ last.r.filtered = PageFrom(s)
          /\ last.r.pi.HasNextPage =
                (positive(last.in.first) /\ s + Len(PageFrom(s)) < Len(last.in.edges))
    /\ last.r.pi.HasPreviousPage = CursorMatches
    /\ IF last.r.filtered = << >>
       THEN last.r.pi.StartCursor = NilStr /\ last.r.pi.EndCursor = NilStr
       ELSE /\ last.r.pi.StartCursor = StrPtr(gqlidEncode(last.r.filtered[1].ID))
            /\ last.r.pi.EndCursor =
                  StrPtr(gqlidEncode(last.r.filtered[Len(last.r.filtered)].ID))

\* C33: filterEdges(edges, first, after) returns the slice that starts right
\* after the edge the cursor decodes to (from the first edge when the cursor is
\* absent, undecodable or names no edge) and holds at most first edges (all
\* that remain when first <= 0); HasPreviousPage tells whether the cursor named
\* an edge, HasNextPage whether first > 0 and edges remain after the slice, and
\* StartCursor and EndCursor are the encoded IDs of the first and the last edge
\* returned, nil when none is.
C33_FilterEdges == last.op = "filterEdges" => PageReturned

\* The same for the calls where start + first is an int.
C33_FilterEdgesWithinInt ==
    (/\ last.op = "filterEdges"
     /\ (positive(last.in.first) => last.in.first + Len(last.in.edges) <= MaxInt))
        => PageReturned

\* A page of one edge after a cursor that names the first of three edges.
C33_FilterEdgesWitness ==
    /\ last.op = "filterEdges"
    /\ last.in.first = 1
    /\ Len(last.in.edges) = 3
    /\ CursorMatches
    /\ Len(last.r.filtered) = 1
    /\ last.r.pi.HasNextPage

\* The goroutines of a batch that have been started and have not finished.
Running(b) ==
    {i \in DOMAIN ld.batches[b].task : ld.batches[b].task[i] \in {"todo", "got"}}

\* C34: no Fetch is given more keys than the maximum batch size, and no batch
\* has more goroutines running than that, whatever the callers ask for and
\* however they and the delay interleave.
C34_BatchBounded ==
    \A b \in 1..Len(ld.batches) :
        /\ Len(ld.batches[b].keys) <= MaxBatch
        /\ Cardinality(Running(b)) <= MaxBatch
        /\ Cardinality(DOMAIN ld.batches[b].task) <= MaxBatch

\* A batch that fired on reaching the maximum size has all its goroutines
\* running, while a caller has asked for more IDs than one batch holds.
C34_Witness ==
    \E b \in 1..Len(ld.batches) :
        /\ ld.batches[b].by = "size"
        /\ ld.batches[b].phase = "fetching"
        /\ Cardinality(Running(b)) = MaxBatch
        /\ \E c \in Callers : Len(ld.callers[c].ids) > MaxBatch

\* The keys of the records of the table.
TableKeys == {keyOf(x) : x \in table}

\* The key of the record on the other partition that mirrors an edge record.
MirrorKey(x, f) ==
    IF f.kind = "Child" THEN getID(f.ID, RFParent(x.id))
    ELSE IF f.kind = "Parent" THEN getID(f.ID, RFChild(x.id))
    ELSE IF f.kind = "ChildData" THEN getID(f.ID, RFParentData(x.id, f.DataType))
    ELSE getID(f.ID, RFChildData(x.id, f.DataType))

\* The record x, an edge record of field f, has its mirror in the table.
Mirrored(x, f) ==
    f.kind \in {"Child", "Parent", "ChildData", "ParentData"}
        => MirrorKey(x, f) \in TableKeys

\* C35: when the Put-family, Delete and DeleteEdge calls of several callers
\* interleave, every BatchPut and BatchDelete being one step and the Get of a
\* delete a step before its BatchDelete, every state of the table has the
\* record (P, child/C) iff it has (C, parent/P), and (P, child/C/data/T) iff
\* it has (C, parent/P/data/T).
C35_MirrorUnderInterleaving == \A x \in table : Mirrored(x, FieldOf(x))

\* A delete whose BatchDelete came after a write of the other caller has
\* returned nil, and edge records with data are in the table.
C35_Witness ==
    /\ raced
    /\ last.op \in Deletes
    /\ last.err = Nil
    /\ table # last.pre
    /\ \E x \in table : FieldOf(x).kind = "ChildData"

\* Whether Get(id), called now with a client that does not fail, lists c as a
\* child.
ListsChild(id, c) ==
    \E j \in 1..Len(Get(Cur, id, FALSE).n.Children) :
        Get(Cur, id, FALSE).n.Children[j].ID = c

\* C36: one caller: after DeleteEdge(P, C) has returned nil, in any state that
\* Put-family calls have made (an edge of PutEdges(P, C) on a P that was never
\* Put among them), the table has none of (P, child/C), (C, parent/P),
\* (P, child/C/data/T) and (C, parent/P/data/T), and Get(P) does not list C as
\* a child.
C36_DeleteEdgeRemovesEdge ==
    (last.op = "DeleteEdge" /\ last.err = Nil) =>
        /\ StaleAfterDelete = {}
        /\ ~ListsChild(last.in.parent, last.in.child)

\* The same for a P and a C that are not empty and a P that has its marker.
C36_DeleteEdgeOfPutNode ==
    (/\ last.op = "DeleteEdge"
     /\ last.err = Nil
     /\ last.in.parent # EmptyStr
     /\ last.in.child # EmptyStr
     /\ MarkerRec(last.in.parent, RFNode) \in last.pre) =>
        /\ StaleAfterDelete = {}
        /\ ~ListsChild(last.in.parent, last.in.child)

\* The record names the node id in its range key as the other end of an edge.
NamesNode(x, id) ==
    /\ FieldOf(x).kind \in {"Child", "Parent", "ChildData", "ParentData"}
    /\ FieldOf(x).ID = id

\* C38: Delete(id) leaves as they were, for every other node X, the marker of
\* X, the data records of X and every record of an edge between X and a node
\* other than id; outside the partition of id it removes only Child, Parent,
\* ChildData and ParentData records whose range key names id, and it writes
\* nothing.
C38_DeleteFrame ==
    last.op = "Delete" =>
        /\ \A x \in last.pre :
              (x.id # last.in.id /\ ~NamesNode(x, last.in.id)) => x \in table
        /\ \A x \in table : x \in last.pre

\* Delete of a node has removed the mirror of an edge from the partition of
\* another node, whose marker, data and edge to a third node are still there.
C38_Witness ==
    /\ last.op = "Delete"
    /\ last.ok
    /\ last.err = Nil
    /\ \E x \in last.pre \ table : x.id # last.in.id /\ NamesNode(x, last.in.id)
    /\ \E x \in table :
          /\ x.id # last.in.id
          /\ FieldOf(x).kind = "Node"
          /\ \E y \in table : y.id = x.id /\ FieldOf(y).kind = "NodeData"
          /\ \E y \in table :
                /\ y.id = x.id
                /\ FieldOf(y).kind \in {"Child", "Parent"}
                /\ FieldOf(y).ID # last.in.id

\* The trail is Put(node), Get(node.ID) without a failing call.
PutGet ==
    /\ Len(trail) = 2
    /\ trail[2].op = "Get"
    /\ trail[2].in.id = TrailNode.ID
    /\ ~trail[2].in.fail

\* The IDs of a list of edges, and the IDs and the data type names that a set
\* of records gives the node of their partition.
IDsOf(edges) == {edges[i].ID : i \in 1..Len(edges)}

ChildIDsIn(recs) ==
    {FieldOf(x).ID : x \in {y \in recs : FieldOf(y).kind \in {"Child", "ChildData"}}}

ParentIDsIn(recs) ==
    {FieldOf(x).ID : x \in {y \in recs : FieldOf(y).kind \in {"Parent", "ParentData"}}}

DataTypesIn(recs) ==
    UNION {{a.t : a \in x.attrs} : x \in {y \in recs : FieldOf(y).kind = "NodeData"}}

\* The records of the partition of the node of the trail: those the table had
\* before the Put, and those the Put emitted.
OldAndNew ==
    {x \in trail[1].pre \cup NodeRecords(TrailNode) : x.id = TrailNode.ID}

\* C37: a Put-family operation adds or overwrites the records it emits and
\* removes none; so after Put(node) on a table that has edges or data of
\* node.ID that node does not have, the older records are still there, and
\* Get(node.ID) returns the edges and the data types of the old records and of
\* the new ones together.
C37_PutKeepsRecords ==
    /\ last.op \in PutFamily =>
          /\ \A x \in last.pre : keyOf(x) \in TableKeys
          /\ \A x \in Changed :
                \E i \in CallsOf("BatchPut") :
                    \E y \in last.calls[i].arg : keyOf(y) = keyOf(x)
    /\ PutGet =>
          /\ last.err = Nil
          /\ last.ok
          /\ IDsOf(last.n.Children) = ChildIDsIn(OldAndNew)
          /\ IDsOf(last.n.Parents) = ParentIDsIn(OldAndNew)
          /\ DOMAIN last.n.Data = DataTypesIn(OldAndNew)

\* Get after a Put of a node on a table that had another child edge, a parent
\* edge and data of that node, none of them in the node that was put.
C37_Witness ==
    /\ PutGet
    /\ TrailNode.Data = EmptyData
    /\ TrailNode.Parents = << >>
    /\ Len(TrailNode.Children) = 1
    /\ Cardinality(IDsOf(last.n.Children)) = 2
    /\ last.n.Parents # << >>
    /\ last.n.Data # EmptyData
    /\ \E x \in trail[1].pre : x.id = TrailNode.ID /\ FieldOf(x).kind = "NodeData"

\* The names of the data types of the edge with this ID in a list of edges
\* (of all the edges of the list that have the ID).
EdgeTypes(edges, id) ==
    UNION {DOMAIN edges[i].Data : i \in {j \in 1..Len(edges) : edges[j].ID = id}}

\* Get has returned the node with the ID and the data type names of the node
\* put, and with these child and parent edges.
GotNodeWith(children, parents) ==
    /\ last.ok
    /\ last.err = Nil
    /\ last.n.ID = TrailNode.ID
    /\ DOMAIN last.n.Data = DOMAIN TrailNode.Data
    /\ IDsOf(last.n.Children) = IDsOf(children)
    /\ IDsOf(last.n.Parents) = IDsOf(parents)
    /\ \A c \in IDsOf(children) :
          EdgeTypes(last.n.Children, c) = EdgeTypes(children, c)
    /\ \A p \in IDsOf(parents) :
          EdgeTypes(last.n.Parents, p) = EdgeTypes(parents, p)

\* The trail is Put(node), Get(node.ID) on a store that was empty.
PutGetOnEmpty == PutGet /\ trail[1].pre = {}

\* The edges of a list that lead to the node itself.
SelfEdges(n, edges) ==
    SetToSeq({edges[i] : i \in {j \in 1..Len(edges) : edges[j].ID = n.ID}})

\* C39 as stated: on an empty store, Put(node) of a node with an ID followed
\* by Get(node.ID) returns ok, no error and a node with the same ID, the same
\* data type names, the same child IDs and parent IDs and, for every edge, the
\* same edge data type names.
C39_PutGetSame ==
    PutGetOnEmpty => GotNodeWith(TrailNode.Children, TrailNode.Parents)

\* C39 amended: the same, where an edge from the node to itself counts as a
\* child edge and as a parent edge of the node.
C39_PutGetSameWithSelfEdges ==
    PutGetOnEmpty =>
        GotNodeWith(TrailNode.Children \o SelfEdges(TrailNode, TrailNode.Parents),
                    TrailNode.Parents \o SelfEdges(TrailNode, TrailNode.Children))

\* Get after the Put, on an empty store, of a node with two child edges with
\* data.
C39_Witness ==
    /\ PutGetOnEmpty
    /\ Len(TrailNode.Children) = 2
    /\ TrailNode.Children[1].Data # EmptyData
    /\ Len(last.n.Children) = 2
    /\ last.n.Parents = << >>

====
